---- MODULE Spec2Model ----
(***************************************************************************)
(* Model of the WowheadLootExtractor text-scanning core.                   *)
(*                                                                         *)
(* A text is a sequence of one-character strings.  Indices handed to and   *)
(* returned by the modelled functions are Python's 0-based indices; the    *)
(* character s[i] of the source is s[i+1] here.                            *)
(***************************************************************************)
EXTENDS Integers, Sequences, FiniteSets, TLC

VARIABLES text,    \* the input text of the current invocation
          src,     \* structured description the text was rendered from, or None
          op,      \* the operation applied last ("init" before any)
          arg,     \* its remaining arguments
          result,  \* its return value
          aux      \* loop state at exit / positions, kept for inspection

vars == <<text, src, op, arg, result, aux>>

None == "None"

\* ------------------------------------------------------------------------
\* Bounds and alphabets of the explored inputs
\* ------------------------------------------------------------------------
MaxLen == 4

Q == "\""
SQ == "'"
BS == "\\"
Quotes == {Q, SQ}
Alphabet == {"{", "}", Q, SQ, BS, "a"}

ShortTexts == UNION {[1..k -> Alphabet] : k \in 0..MaxLen}

\* {"x":{"y":1}}
TextXY == <<"{", Q, "x", Q, ":", "{", Q, "y", Q, ":", "1", "}", "}">>
\* {a:1},{b:2}
TextAB == <<"{", "a", ":", "1", "}", ",", "{", "b", ":", "2", "}">>
\* {a:1},{b:2      (second object never closed)
TextABOpen == <<"{", "a", ":", "1", "}", ",", "{", "b", ":", "2">>
\* "{",{a:1}
TextQuotedBrace == <<Q, "{", Q, ",", "{", "a", ":", "1", "}">>
\* [{"a":"]"},['[']]
TextArr == <<"[", "{", Q, "a", Q, ":", Q, "]", Q, "}", ",",
             "[", SQ, "[", SQ, "]", "]">>
\* {"a":"}\"}",'{':{}}
TextEsc == <<"{", Q, "a", Q, ":", Q, "}", BS, Q, "}", Q, ",",
             SQ, "{", SQ, ":", "{", "}", "}">>

SampleTexts == {TextXY, TextAB, TextABOpen, TextQuotedBrace, TextArr, TextEsc}

BracketPairs == {<<"{", "}">>, <<"[", "]">>}

Min(S) == CHOOSE x \in S : \A y \in S : x <= y
Max(S) == CHOOSE x \in S : \A y \in S : x >= y

\* ------------------------------------------------------------------------
\* Loops over the characters of a text
\* ------------------------------------------------------------------------
\* Each loop "for i in range(lo, hi): st = Step(st, i, s[i])" is written as a
\* ...Range operator that splits the range in halves, so that the evaluation
\* does not nest once per character; the left half is computed before the
\* right half is entered.

\* s[a:b] of the source
Slice(s, a, b) == SubSeq(s, a + 1, b)

\* ------------------------------------------------------------------------
\* utils.py: find_matching_bracket
\* ------------------------------------------------------------------------
\* Variant: the scan takes no notice of quoted strings.
FmbStepNoQuotes(st, idx, ch, open_ch, close_ch) ==
  IF st.ret # -1 THEN st
  ELSE IF ch = open_ch THEN [st EXCEPT !.depth = st.depth + 1]
  ELSE IF ch = close_ch
       THEN IF st.depth - 1 = 0
            THEN [st EXCEPT !.depth = 0, !.ret = idx]
            ELSE [st EXCEPT !.depth = st.depth - 1]
  ELSE st

\* One iteration of the for-loop on character ch at index idx.  ret is the
\* value returned so far (-1: none); after the return the loop does nothing.
FmbStep(st, idx, ch, open_ch, close_ch) ==
  IF st.ret # -1 THEN st
  ELSE IF st.in_str # None
  THEN IF st.esc THEN [st EXCEPT !.esc = FALSE]
       ELSE IF ch = BS THEN [st EXCEPT !.esc = TRUE]
       ELSE IF ch = st.in_str THEN [st EXCEPT !.in_str = None]
       ELSE st
  ELSE IF ch = Q \/ ch = SQ THEN [st EXCEPT !.in_str = ch]
       ELSE IF ch = open_ch THEN [st EXCEPT !.depth = st.depth + 1]
       ELSE IF ch = close_ch
            THEN IF st.depth - 1 = 0
                 THEN [st EXCEPT !.depth = 0, !.ret = idx]
                 ELSE [st EXCEPT !.depth = st.depth - 1]
       ELSE st

\* for idx in range(lo, hi)
RECURSIVE FmbRange(_, _, _, _, _, _)
FmbRange(s, lo, hi, st, open_ch, close_ch) ==
  IF lo >= hi THEN st
  ELSE IF hi = lo + 1 THEN FmbStep(st, lo, s[lo + 1], open_ch, close_ch)
  ELSE LET mid == (lo + hi) \div 2
           left == FmbRange(s, lo, mid, st, open_ch, close_ch)
       IN  IF left = left THEN FmbRange(s, mid, hi, left, open_ch, close_ch) ELSE left

\* Variant: the depth counter starts at 1 instead of 0.
FmbScanDepthOne(s, start_idx, open_ch, close_ch) ==
  FmbRange(s, start_idx, Len(s),
           [ret |-> -1, depth |-> 1, in_str |-> None, esc |-> FALSE],
           open_ch, close_ch)

\* The whole loop from start_idx; the record is the loop state at exit.
FmbScan(s, start_idx, open_ch, close_ch) ==
  FmbRange(s, start_idx, Len(s),
           [ret |-> -1, depth |-> 0, in_str |-> None, esc |-> FALSE],
           open_ch, close_ch)

find_matching_bracket(s, start_idx, open_ch, close_ch) ==
  FmbScan(s, start_idx, open_ch, close_ch).ret

\* ------------------------------------------------------------------------
\* utils.py: compute_depth_at
\* ------------------------------------------------------------------------
\* Variant: a backslash inside a string is an ordinary character.
CdaStepNoEsc(st, i, ch) ==
  IF st.in_str # None
  THEN IF ch = st.in_str THEN [st EXCEPT !.in_str = None] ELSE st
  ELSE IF ch = Q \/ ch = SQ THEN [st EXCEPT !.in_str = ch]
       ELSE IF ch = "{" THEN [st EXCEPT !.depth = st.depth + 1]
       ELSE IF ch = "}" THEN [st EXCEPT !.depth = st.depth - 1]
       ELSE st

\* One iteration of the while-loop on character ch.
CdaStep(st, i, ch) ==
  IF st.in_str # None
  THEN IF st.esc THEN [st EXCEPT !.esc = FALSE]
       ELSE IF ch = BS THEN [st EXCEPT !.esc = TRUE]
       ELSE IF ch = st.in_str THEN [st EXCEPT !.in_str = None]
       ELSE st
  ELSE IF ch = Q \/ ch = SQ THEN [st EXCEPT !.in_str = ch]
       ELSE IF ch = "{" THEN [st EXCEPT !.depth = st.depth + 1]
       ELSE IF ch = "}" THEN [st EXCEPT !.depth = st.depth - 1]
       ELSE st

\* while i < hi, from i = lo
RECURSIVE CdaRange(_, _, _, _)
CdaRange(s, lo, hi, st) ==
  IF lo >= hi THEN st
  ELSE IF hi = lo + 1 THEN CdaStep(st, lo, s[lo + 1])
  ELSE LET mid == (lo + hi) \div 2
           left == CdaRange(s, lo, mid, st)
       IN  IF left = left THEN CdaRange(s, mid, hi, left) ELSE left

\* Variant: the loop also consumes the character at idx (i <= idx).
CdaScanInclusive(s, idx) ==
  CdaRange(s, 0, IF idx < Len(s) THEN idx + 1 ELSE idx,
           [depth |-> 0, in_str |-> None, esc |-> FALSE])

\* The whole loop "while i < idx"; the record is the loop state at exit.
CdaScan(s, idx) ==
  CdaRange(s, 0, idx, [depth |-> 0, in_str |-> None, esc |-> FALSE])

compute_depth_at(s, idx) == CdaScan(s, idx).depth

\* ------------------------------------------------------------------------
\* utils.py: extract_objects_from_array_str
\* ------------------------------------------------------------------------
\* The two nested while-loops as one pass over the characters.  cap tells
\* whether the inner loop (capture of an object begun at start) is running;
\* objs collects the slices s[start:i] as <<start, i>>.
EoStep(st, i, ch) ==
  IF ~st.cap
  THEN IF ch = "{"
       THEN [st EXCEPT !.cap = TRUE, !.start = i, !.depth = 1,
                       !.in_str = None, !.esc = FALSE]
       ELSE st
  ELSE LET nx == IF st.in_str # None
                 THEN IF st.esc THEN [st EXCEPT !.esc = FALSE]
                      ELSE IF ch = BS THEN [st EXCEPT !.esc = TRUE]
                      ELSE IF ch = st.in_str THEN [st EXCEPT !.in_str = None]
                      ELSE st
                 ELSE IF ch = Q \/ ch = SQ THEN [st EXCEPT !.in_str = ch]
                      ELSE IF ch = "{" THEN [st EXCEPT !.depth = st.depth + 1]
                      ELSE IF ch = "}" THEN [st EXCEPT !.depth = st.depth - 1]
                      ELSE st
       IN  IF nx.depth > 0 THEN nx
           ELSE [nx EXCEPT !.cap = FALSE,
                           !.objs = Append(nx.objs, <<nx.start, i + 1>>)]

\* while i < n, over both loops
RECURSIVE EoRange(_, _, _, _)
EoRange(s, lo, hi, st) ==
  IF lo >= hi THEN st
  ELSE IF hi = lo + 1 THEN EoStep(st, lo, s[lo + 1])
  ELSE LET mid == (lo + hi) \div 2
           left == EoRange(s, lo, mid, st)
       IN  IF left = left THEN EoRange(s, mid, hi, left) ELSE left

\* The slices appended by the function: the inner loop also ends at the end
\* of the text, and the slice s[start:i] is appended whatever ended it.
ExtractSpans(s) ==
  LET fin == EoRange(s, 0, Len(s),
                     [cap |-> FALSE, start |-> 0, depth |-> 0,
                      in_str |-> None, esc |-> FALSE, objs |-> <<>>])
  IN  IF fin.cap THEN Append(fin.objs, <<fin.start, Len(s)>>) ELSE fin.objs

extract_objects_from_array_str(s) ==
  LET sp == ExtractSpans(s)
  IN  [k \in 1..Len(sp) |-> Slice(s, sp[k][1], sp[k][2])]

\* ------------------------------------------------------------------------
\* Regular expressions (Python re) as used by parser.py.  A pattern is a
\* sequence of elements; a match attempt keeps the list of its alternatives
\* in the order in which backtracking would try them.
\* ------------------------------------------------------------------------
\* \s (ASCII; the vertical tab cannot be written as a TLA+ string)
WS == {" ", "\t", "\n", "\r", "\f"}
DigitChars == <<"0", "1", "2", "3", "4", "5", "6", "7", "8", "9">>
Digit == {DigitChars[k] : k \in 1..10}
DigitVal(ch) == (CHOOSE k \in 1..10 : DigitChars[k] = ch) - 1

UpperChars == <<"A", "B", "C", "D", "E", "F", "G", "H", "I", "J", "K", "L", "M",
                "N", "O", "P", "Q", "R", "S", "T", "U", "V", "W", "X", "Y", "Z">>
LowerChars == <<"a", "b", "c", "d", "e", "f", "g", "h", "i", "j", "k", "l", "m",
                "n", "o", "p", "q", "r", "s", "t", "u", "v", "w", "x", "y", "z">>
\* case folding of re.I
Lower(ch) ==
  IF \E k \in 1..26 : UpperChars[k] = ch
  THEN LowerChars[CHOOSE k \in 1..26 : UpperChars[k] = ch]
  ELSE ch

\* the literal lit occurs at index i (ci: under re.I)
LitAt(s, i, lit, ci) ==
  /\ i >= 0
  /\ i + Len(lit) <= Len(s)
  /\ \A k \in 1..Len(lit) :
       IF ci THEN Lower(s[i + k]) = Lower(lit[k]) ELSE s[i + k] = lit[k]

\* Pattern elements: a literal; a character class taken once, optionally
\* (?), greedily (* and +) or lazily ([^...]*?); the two ends of a capture
\* group; an optional group (?:...)?; an alternation (?:a|b|...).
Lit(w) == [t |-> "lit", w |-> w]
Cls(set, neg, min, many, lazy) ==
  [t |-> "cls", set |-> set, neg |-> neg, min |-> min, many |-> many,
   lazy |-> lazy]
One(set) == Cls(set, FALSE, 1, FALSE, FALSE)
Maybe(set) == Cls(set, FALSE, 0, FALSE, FALSE)
Star(set) == Cls(set, FALSE, 0, TRUE, FALSE)
Plus(set) == Cls(set, FALSE, 1, TRUE, FALSE)
LazyStarNot(set) == Cls(set, TRUE, 0, TRUE, TRUE)
Open(n) == [t |-> "open", n |-> n]
Close(n) == [t |-> "close", n |-> n]
Opt(body) == [t |-> "opt", body |-> body]
Alt(alts) == [t |-> "alt", alts |-> alts]

\* the spans of the capture groups before anything is captured
NoGroups == << <<-1, -1>>, <<-1, -1>>, <<-1, -1>> >>

ClsHas(e, ch) == (ch \in e.set) # e.neg

\* how many characters from index i on the class of e can take
RunLen(s, i, e) ==
  LET stop == Min({k \in i..Len(s) : k = Len(s) \/ ~ClsHas(e, s[k + 1])})
  IN  IF e.many THEN stop - i ELSE Min({1, stop - i})

\* concatenation of the sequences ss[lo+1], ..., ss[hi]
RECURSIVE Flatten(_, _, _)
Flatten(ss, lo, hi) ==
  IF lo >= hi THEN <<>>
  ELSE IF hi = lo + 1 THEN ss[hi]
  ELSE Flatten(ss, lo, (lo + hi) \div 2) \o Flatten(ss, (lo + hi) \div 2, hi)

RECURSIVE ReRun(_, _, _, _)
RECURSIVE ElemNext(_, _, _, _)

\* The alternatives that element e leaves of the alternative th (index i
\* reached, group spans grp), most preferred first.
ElemNext(s, th, e, ci) ==
  CASE e.t = "lit" ->
         IF LitAt(s, th.i, e.w, ci)
         THEN <<[i |-> th.i + Len(e.w), grp |-> th.grp]>>
         ELSE <<>>
    [] e.t = "cls" ->
         [k \in 1..(RunLen(s, th.i, e) - e.min + 1) |->
            [i |-> th.i + (IF e.lazy THEN e.min + k - 1
                           ELSE RunLen(s, th.i, e) - k + 1),
             grp |-> th.grp]]
    [] e.t = "open" ->
         <<[i |-> th.i, grp |-> [th.grp EXCEPT ![e.n] = <<th.i, th.i>>]]>>
    [] e.t = "close" ->
         <<[i |-> th.i, grp |-> [th.grp EXCEPT ![e.n] = <<@[1], th.i>>]]>>
    [] e.t = "opt" ->
         ReRun(s, <<th>>, e.body, ci) \o <<th>>
    [] e.t = "alt" ->
         Flatten([k \in 1..Len(e.alts) |-> ReRun(s, <<th>>, e.alts[k], ci)],
                 0, Len(e.alts))

\* The alternatives left after the elements of pat, most preferred first.
ReRun(s, ths, pat, ci) ==
  IF Len(pat) = 0 \/ Len(ths) = 0 THEN ths
  ELSE ReRun(s,
             Flatten([k \in 1..Len(ths) |-> ElemNext(s, ths[k], Head(pat), ci)],
                     0, Len(ths)),
             Tail(pat), ci)

\* A match is the record of its start, its end and its group spans; a failed
\* attempt or search has start and end -1.
NoHit == [start |-> -1, end |-> -1, grp |-> NoGroups]
IsHit(m) == m.end # -1

\* the most preferred of the alternatives ths of an attempt at p
FirstAlt(p, ths) ==
  IF Len(ths) = 0 THEN NoHit
  ELSE [start |-> p, end |-> ths[1].i, grp |-> ths[1].grp]

\* pattern.match(s, p)
ReAt(s, p, pat, ci) ==
  FirstAlt(p, ReRun(s, <<[i |-> p, grp |-> NoGroups]>>, pat, ci))

\* m.group(n)
Group(s, m, n) == Slice(s, m.grp[n][1], m.grp[n][2])

Positions(s) == 0..(Len(s) - 1)

\* re.search / str.find: the leftmost of a set of indices, or -1
SearchFirst(S) == IF S = {} THEN -1 ELSE Min(S)

\* the match at the index p found by a search (NoHit when p is -1)
HitAt(s, p, pat, ci) == IF p = -1 THEN NoHit ELSE ReAt(s, p, pat, ci)

\* re.search(pat, s)
re_search(s, pat, ci) ==
  HitAt(s, SearchFirst({p \in Positions(s) : IsHit(ReAt(s, p, pat, ci))}),
        pat, ci)

\* re.finditer: the leftmost non-overlapping matches.  next is the index
\* from which the search goes on, m the attempt at p.
FindIterStep(st, p, m) ==
  IF p >= st.next /\ IsHit(m)
  THEN [next |-> IF m.end > p THEN m.end ELSE p + 1, out |-> Append(st.out, m)]
  ELSE st

\* the scan of re.finditer over the start positions lo..hi-1
RECURSIVE FindIterRange(_, _, _, _, _, _)
FindIterRange(s, pat, ci, lo, hi, st) ==
  IF lo >= hi THEN st
  ELSE IF hi = lo + 1 THEN FindIterStep(st, lo, ReAt(s, lo, pat, ci))
  ELSE LET mid == (lo + hi) \div 2
           left == FindIterRange(s, pat, ci, lo, mid, st)
       IN  IF left = left THEN FindIterRange(s, pat, ci, mid, hi, left)
           ELSE left

\* list(re.finditer(pat, s))
re_finditer(s, pat, ci) ==
  FindIterRange(s, pat, ci, 0, Len(s), [next |-> 0, out |-> <<>>]).out

\* str.find(ch, from): least index >= from holding ch, or -1
Find(s, ch, from) ==
  SearchFirst({k \in Positions(s) : k >= from /\ s[k + 1] = ch})

\* None of an optional integer (the matched integers are never negative)
NoInt == -1
\* None of a percentage
NoPct == <<>>

\* int() of a matched \d+
RECURSIVE ParseNat(_)
ParseNat(ds) ==
  IF Len(ds) = 0 THEN 0
  ELSE 10 * ParseNat(SubSeq(ds, 1, Len(ds) - 1)) + DigitVal(ds[Len(ds)])

\* int() of a matched -?\d+
ParseInt(ds) == IF ds[1] = "-" THEN 0 - ParseNat(Tail(ds)) ELSE ParseNat(ds)

\* ---- the patterns of parser.py ----
L_count == <<Q, "c", "o", "u", "n", "t", Q>>
L_outof == <<Q, "o", "u", "t", "o", "f", Q>>
L_modes == <<"m", "o", "d", "e", "s">>
L_id == <<"i", "d">>
L_quality == <<"q", "u", "a", "l", "i", "t", "y">>
L_classs == <<"c", "l", "a", "s", "s", "s">>
L_subclass == <<"s", "u", "b", "c", "l", "a", "s", "s">>
L_stack == <<"s", "t", "a", "c", "k">>
ChanceAliases == << <<Lit(<<"d", "r", "o", "p", "C", "h", "a", "n", "c", "e">>)>>,
                    <<Lit(<<"d", "r", "o", "p", "_", "c", "h", "a", "n", "c", "e">>)>>,
                    <<Lit(<<"c", "h", "a", "n", "c", "e">>)>>,
                    <<Lit(<<"p", "c", "t">>)>>,
                    <<Lit(<<"p", "e", "r", "c", "e", "n", "t">>)>> >>

\* \s*:\s*
P_colon == <<Star(WS), Lit(<<":">>), Star(WS)>>
\* (\d+) as group n
P_nat(n) == <<Open(n), Plus(Digit), Close(n)>>
\* (-?\d+) as group n
P_int(n) == <<Open(n), Maybe({"-"}), Plus(Digit), Close(n)>>
\* ["\']?name["\']?
P_optquoted(name) == <<Maybe(Quotes), Lit(name), Maybe(Quotes)>>

\* ['\"]name['\"]\s*:\s*(\d+)
P_keynum(name) ==
  <<One(Quotes), Lit(name), One(Quotes)>> \o P_colon \o P_nat(1)

\* "count"\s*:\s*(-?\d+)
P_count == <<Lit(L_count)>> \o P_colon \o P_int(1)

\* "outof"\s*:\s*(\d+)
P_outof == <<Lit(L_outof)>> \o P_colon \o P_nat(1)

\* "count"\s*:\s*(-?\d+)\s*,\s*"outof"\s*:\s*(\d+)
P_pair ==
  <<Lit(L_count)>> \o P_colon \o P_int(1)
    \o <<Star(WS), Lit(<<",">>), Star(WS), Lit(L_outof)>> \o P_colon \o P_nat(2)

\* ["\']?modes["\']?\s*:\s*\{
P_modes == P_optquoted(L_modes) \o P_colon \o <<Lit(<<"{">>)>>

\* ["\']?(\d+)["\']?\s*:\s*\{[^}]*?"count"\s*:\s*(-?\d+)[^}]*?
\* "outof"\s*:\s*(-?\d+)[^}]*?\}
P_entry ==
  <<Maybe(Quotes)>> \o P_nat(1) \o <<Maybe(Quotes)>> \o P_colon
    \o <<Lit(<<"{">>), LazyStarNot({"}"}), Lit(L_count)>> \o P_colon \o P_int(2)
    \o <<LazyStarNot({"}"}), Lit(L_outof)>> \o P_colon \o P_int(3)
    \o <<LazyStarNot({"}"}), Lit(<<"}">>)>>

\* ['\"](?:dropChance|drop_chance|chance|pct|percent)['\"]\s*:\s*
\* ([0-9]+(?:\.[0-9]+)?), used under re.I
P_chance ==
  <<One(Quotes), Alt(ChanceAliases), One(Quotes)>> \o P_colon
    \o <<Open(1), Plus(Digit), Opt(<<Lit(<<".">>), Plus(Digit)>>), Close(1)>>

\* (?:['\"]?stack['\"]?)\s*:\s*\[\s*(\d+)\s*,\s*(\d+)\s*\]
P_stack ==
  P_optquoted(L_stack) \o P_colon \o <<Lit(<<"[">>), Star(WS)>> \o P_nat(1)
    \o <<Star(WS), Lit(<<",">>), Star(WS)>> \o P_nat(2)
    \o <<Star(WS), Lit(<<"]">>)>>

\* (?:['\"]?stack['\"]?)\s*:\s*\[\s*(\d+)\s*\]
P_stack_single ==
  P_optquoted(L_stack) \o P_colon \o <<Lit(<<"[">>), Star(WS)>> \o P_nat(1)
    \o <<Star(WS), Lit(<<"]">>)>>

\* ------------------------------------------------------------------------
\* Percentages.  A float percentage is kept as the exact fraction <<num, den>>
\* with den > 0; Python's None is NoPct.
\* ------------------------------------------------------------------------
\* (float(cnt) / float(outof)) * 100.0
Pct(cnt, outof) == <<100 * cnt, outof>>

RatEq(a, b) == a # NoPct /\ b # NoPct /\ a[1] * b[2] = b[1] * a[2]

RECURSIVE Pow10(_)
Pow10(k) == IF k = 0 THEN 1 ELSE 10 * Pow10(k - 1)

\* N / 10^k rounded to hundredths, ties to even (k > 2)
RoundHundredths(N, D) ==
  IF 2 * (N % D) > D \/ (2 * (N % D) = D /\ (N \div D) % 2 = 1)
  THEN <<(N \div D) + 1, 100>>
  ELSE <<N \div D, 100>>

\* the decimal ip.fr rounded to hundredths
RoundDecimal(ip, fr) ==
  IF Len(fr) <= 2
  THEN <<(ParseNat(ip) * Pow10(Len(fr)) + ParseNat(fr)) * Pow10(2 - Len(fr)),
         100>>
  ELSE RoundHundredths(ParseNat(ip) * Pow10(Len(fr)) + ParseNat(fr),
                       Pow10(Len(fr) - 2))

\* round(float(g), 2) for a matched [0-9]+(?:\.[0-9]+)?, in hundredths
\* (decimals that are ties at the third place are not exact binary floats and
\* are kept out of the explored inputs).
RoundedChance(g) ==
  IF \E k \in 1..Len(g) : g[k] = "."
  THEN RoundDecimal(SubSeq(g, 1, Min({k \in 1..Len(g) : g[k] = "."}) - 1),
                    SubSeq(g, Min({k \in 1..Len(g) : g[k] = "."}) + 1, Len(g)))
  ELSE RoundDecimal(g, <<>>)

\* ------------------------------------------------------------------------
\* parser.py: extract_percent_from_modes
\* ------------------------------------------------------------------------
\* if outof > 0 and cnt >= 0
PairValid(cnt, outof) == outof > 0 /\ cnt >= 0

\* the loop over matches: top_level as <<cnt, outof>>, or <<>> for None
TopLevelOf(obj_str, matches) ==
  LET usable == {k \in 1..Len(matches) :
                   /\ compute_depth_at(obj_str, matches[k].start) = 1
                   /\ PairValid(ParseInt(Group(obj_str, matches[k], 1)),
                                ParseInt(Group(obj_str, matches[k], 2)))}
  IN  IF usable = {} THEN <<>>
      ELSE <<ParseInt(Group(obj_str, matches[Min(usable)], 1)),
             ParseInt(Group(obj_str, matches[Min(usable)], 2))>>

\* what is returned when the modes table gives nothing
Fallback(top_level) ==
  IF top_level # <<>> THEN Pct(top_level[1], top_level[2]) ELSE NoPct

\* entries[key] = val of a Python dict kept as a sequence in insertion order
DictSet(entries, key, val) ==
  IF \E k \in 1..Len(entries) : entries[k].key = key
  THEN [k \in 1..Len(entries) |->
          IF entries[k].key = key THEN [key |-> key, val |-> val]
          ELSE entries[k]]
  ELSE Append(entries, [key |-> key, val |-> val])

\* if outof and outof > 0 and cnt >= 0
EntryValid(cnt, outof) == outof # 0 /\ outof > 0 /\ cnt >= 0

\* one pass of the for-loop over pattern.finditer(modes_body)
EntryStep(entries, key, cnt, outof) ==
  IF EntryValid(cnt, outof) THEN DictSet(entries, key, <<cnt, outof>>)
  ELSE entries

\* the for-loop over pattern.finditer(modes_body), from the k-th match on
RECURSIVE CollectEntries(_, _, _, _)
CollectEntries(body, ms, k, entries) ==
  IF k > Len(ms) THEN entries
  ELSE CollectEntries(body, ms, k + 1,
         EntryStep(entries, Group(body, ms[k], 1),
                   ParseInt(Group(body, ms[k], 2)),
                   ParseInt(Group(body, ms[k], 3))))

\* Variant: the smallest sample is taken instead of the largest.
MaxByOutofSmallest(entries) ==
  entries[Min({k \in 1..Len(entries) :
                 \A j \in 1..Len(entries) :
                   entries[j].val[2] >= entries[k].val[2]})].val

\* max(entries.items(), key=lambda kv: kv[1][1]): first entry of largest outof
MaxByOutof(entries) ==
  entries[Min({k \in 1..Len(entries) :
                 \A j \in 1..Len(entries) :
                   entries[j].val[2] <= entries[k].val[2]})].val

\* Variant: key '0' gets no preference.
HasKeyZeroNever(entries) == FALSE

\* '0' in entries
HasKeyZero(entries) == \E k \in 1..Len(entries) : entries[k].key = <<"0">>

\* entries[key]
DictGet(entries, key) ==
  entries[CHOOSE k \in 1..Len(entries) : entries[k].key = key].val

\* the percentage of a (cnt, outof) tuple
PctOf(val) == Pct(val[1], val[2])

\* the end of the function, from `if not entries` on
ModesPick(fallback, entries) ==
  IF Len(entries) = 0 THEN fallback
  ELSE IF HasKeyZero(entries) THEN PctOf(DictGet(entries, <<"0">>))
  ELSE PctOf(MaxByOutof(entries))

\* modes_body and the entries read from it
ModesEntries(modes_body) ==
  CollectEntries(modes_body, re_finditer(modes_body, P_entry, FALSE), 1, <<>>)

\* from end_idx = find_matching_bracket(...) on
ModesSpan(obj_str, fallback, start_idx, end_idx) ==
  IF end_idx = -1 THEN fallback
  ELSE ModesPick(fallback, ModesEntries(Slice(obj_str, start_idx + 1, end_idx)))

\* from start_idx = obj_str.find('{', mm.end()-1) on
ModesFrom(obj_str, fallback, start_idx) ==
  IF start_idx = -1 THEN fallback
  ELSE ModesSpan(obj_str, fallback, start_idx,
                 find_matching_bracket(obj_str, start_idx, "{", "}"))

\* from mm = re.search(...) on
ModesAfterSearch(obj_str, fallback, mm) ==
  IF ~IsHit(mm) THEN fallback
  ELSE ModesFrom(obj_str, fallback, Find(obj_str, "{", mm.end - 1))

extract_percent_from_modes(obj_str) ==
  ModesAfterSearch(obj_str,
                   Fallback(TopLevelOf(obj_str,
                                       re_finditer(obj_str, P_pair, FALSE))),
                   re_search(obj_str, P_modes, FALSE))

\* ------------------------------------------------------------------------
\* parser.py: _parse_item_object (id, quality, classs, subclass, drop_chance,
\* min_count, max_count; the name and flags strings are not modelled)
\* ------------------------------------------------------------------------
\* int(m.group(1)) if m else dflt
IntOf(obj_str, m, dflt) ==
  IF IsHit(m) THEN ParseNat(Group(obj_str, m, 1)) ELSE dflt

\* re.search of ['\"]name['\"]\s*:\s*(\d+): int of the group, or dflt
IntField(obj_str, name, dflt) ==
  IntOf(obj_str, re_search(obj_str, P_keynum(name), FALSE), dflt)

\* round(float(chance_m.group(1)), 2) if chance_m
ChanceOf(obj_str, chance_m) ==
  IF IsHit(chance_m) THEN RoundedChance(Group(obj_str, chance_m, 1)) ELSE NoPct

\* chance_m and the rounding of its group
ExplicitChance(obj_str) ==
  ChanceOf(obj_str, re_search(obj_str, P_chance, TRUE))

\* Variant: the depth of the count/outof fields is not looked at.
AtTopLevelAny(obj_str, idx) == TRUE

\* cdepth == 1 / od == 1
AtTopLevel(obj_str, idx) == compute_depth_at(obj_str, idx) = 1

\* the inner loop over outof_matches: index of next_out, or 0 for None
NextOut(obj_str, cm, outof_matches) ==
  Max({0, SearchFirst({j \in 1..Len(outof_matches) :
                         /\ outof_matches[j].start > cm.start
                         /\ AtTopLevel(obj_str, outof_matches[j].start)})})

\* cnt and outof of cm and next_out pass the test of the loop body
PairUsable(obj_str, cm, om) ==
  ParseInt(Group(obj_str, om, 1)) > 0 /\ ParseInt(Group(obj_str, cm, 1)) >= 0

\* (float(cnt) / float(outof)) * 100.0 of cm and next_out
PairPct(obj_str, cm, om) ==
  Pct(ParseInt(Group(obj_str, cm, 1)), ParseInt(Group(obj_str, om, 1)))

\* The loop over count_matches: the percentage of the first usable pair of a
\* depth-1 count and the first depth-1 outof after it, or NoPct (pair_found
\* False)
PairLoop(obj_str, count_matches, outof_matches) ==
  LET usable == {k \in 1..Len(count_matches) :
                   /\ AtTopLevel(obj_str, count_matches[k].start)
                   /\ \E j \in {NextOut(obj_str, count_matches[k],
                                        outof_matches)} :
                        /\ j # 0
                        /\ PairUsable(obj_str, count_matches[k],
                                      outof_matches[j])}
  IN  IF usable = {} THEN NoPct
      ELSE PairPct(obj_str, count_matches[Min(usable)],
                   outof_matches[NextOut(obj_str, count_matches[Min(usable)],
                                         outof_matches)])

TopLevelPair(obj_str) ==
  PairLoop(obj_str, re_finditer(obj_str, P_count, FALSE),
           re_finditer(obj_str, P_outof, FALSE))

\* the first of three results that is not None
FirstFound(a, b, c) == IF a # NoPct THEN a ELSE IF b # NoPct THEN b ELSE c

\* Variant: the modes table is consulted before the explicit field.
DropChanceModesFirst(obj_str) ==
  FirstFound(extract_percent_from_modes(obj_str), ExplicitChance(obj_str),
             TopLevelPair(obj_str))

\* the drop_chance computed by _parse_item_object
DropChance(obj_str) ==
  FirstFound(ExplicitChance(obj_str), TopLevelPair(obj_str),
             extract_percent_from_modes(obj_str))

\* Variant: the two numbers of the array are taken in the other order.
StackOfSwapped(obj_str, stack_m, stack_single) ==
  IF IsHit(stack_m)
  THEN <<ParseNat(Group(obj_str, stack_m, 2)),
         ParseNat(Group(obj_str, stack_m, 1))>>
  ELSE IF IsHit(stack_single)
  THEN <<ParseNat(Group(obj_str, stack_single, 1)),
         ParseNat(Group(obj_str, stack_single, 1))>>
  ELSE <<NoInt, NoInt>>

\* <<min_count, max_count>> from stack_m and stack_single
StackOf(obj_str, stack_m, stack_single) ==
  IF IsHit(stack_m)
  THEN <<ParseNat(Group(obj_str, stack_m, 1)),
         ParseNat(Group(obj_str, stack_m, 2))>>
  ELSE IF IsHit(stack_single)
  THEN <<ParseNat(Group(obj_str, stack_single, 1)),
         ParseNat(Group(obj_str, stack_single, 1))>>
  ELSE <<NoInt, NoInt>>

StackCounts(obj_str) ==
  StackOf(obj_str, re_search(obj_str, P_stack, FALSE),
          re_search(obj_str, P_stack_single, FALSE))

\* the return value None of _parse_item_object
NoItem == [id |-> NoInt, quality |-> 0, classs |-> NoInt, subclass |-> NoInt,
           drop_chance |-> NoPct, min_count |-> NoInt, max_count |-> NoInt]

\* the returned dict, given item_id and the stack counts
ItemOf(obj_str, item_id, stack) ==
  IF item_id = NoInt THEN NoItem
  ELSE [id |-> item_id,
        quality |-> IntField(obj_str, L_quality, 0),
        classs |-> IntField(obj_str, L_classs, NoInt),
        subclass |-> IntField(obj_str, L_subclass, NoInt),
        drop_chance |-> DropChance(obj_str),
        min_count |-> stack[1],
        max_count |-> stack[2]]

parse_item_object(obj_str) ==
  ItemOf(obj_str, IntField(obj_str, L_id, NoInt), StackCounts(obj_str))

\* ------------------------------------------------------------------------
\* Item object texts.  An object is described by a record and rendered to the
\* text the decoder is given.
\* ------------------------------------------------------------------------
MaxModes == 2

RECURSIVE NatDigits(_)
NatDigits(n) ==
  IF n < 10 THEN <<DigitChars[n + 1]>>
  ELSE NatDigits(n \div 10) \o <<DigitChars[(n % 10) + 1]>>

IntDigits(n) == IF n < 0 THEN <<"-">> \o NatDigits(0 - n) ELSE NatDigits(n)

Quoted(w) == <<Q>> \o w \o <<Q>>

\* "count":c
CountField(c) == L_count \o <<":">> \o IntDigits(c)
\* "outof":o
OutofField(o) == L_outof \o <<":">> \o IntDigits(o)

ChanceForms == {"none", "plain", "quoted", "pct"}

\* the text of the explicit chance field
RenderChance(f) ==
  CASE f = "plain"  -> <<Quoted(<<"c", "h", "a", "n", "c", "e">>)
                          \o <<":", "5", ".", "5">> >>
    [] f = "quoted" -> <<Quoted(<<"c", "h", "a", "n", "c", "e">>)
                          \o <<":", Q, "5", ".", "5", Q>> >>
    [] f = "pct"    -> <<Quoted(<<"p", "c", "t">>)
                          \o <<":", "1", "2", ".", "3", "4", "6">> >>
    [] f = "big"    -> <<Quoted(<<"c", "h", "a", "n", "c", "e">>)
                          \o <<":", "1", "5", "0">> >>
    [] OTHER        -> <<>>

TopKinds == {"adjacent", "spaced", "reversed", "nestedout", "nested"}
TopForms ==
  {[kind |-> "none", c |-> 0, o |-> 0]}
  \cup {[kind |-> k, c |-> 3, o |-> 4] : k \in TopKinds}
  \cup {[kind |-> "adjacent", c |-> v[1], o |-> v[2]] :
          v \in {<<-1, 4>>, <<3, 0>>, <<3, -4>>, <<0, 4>>}}

\* the fields that carry the direct count/outof of the object
RenderTop(t) ==
  CASE t.kind = "adjacent"  -> <<CountField(t.c), OutofField(t.o)>>
    [] t.kind = "spaced"    -> <<CountField(t.c),
                                 Quoted(<<"p", "c", "t", "s", "t", "a", "c", "k">>)
                                   \o <<":", "1">>,
                                 OutofField(t.o)>>
    [] t.kind = "reversed"  -> <<OutofField(t.o), CountField(t.c)>>
    [] t.kind = "nestedout" -> <<CountField(t.c),
                                 Quoted(<<"x">>) \o <<":", "{">>
                                   \o OutofField(t.o) \o <<"}">> >>
    [] t.kind = "nested"    -> <<Quoted(<<"x">>) \o <<":", "{">>
                                   \o CountField(t.c) \o <<",">>
                                   \o OutofField(t.o) \o <<"}">> >>
    [] OTHER                -> <<>>

ModeKeys == {"0", "2", "5"}
ModeVals == {<<1, 5>>, <<5, 50>>, <<3, 0>>}
ModeEntries == [key : ModeKeys, c : {v[1] : v \in ModeVals},
                o : {v[2] : v \in ModeVals}]
GenEntries == {e \in ModeEntries : <<e.c, e.o>> \in ModeVals}

DistinctKeys(es) ==
  \A i, j \in 1..Len(es) : i # j => es[i].key # es[j].key

\* {"0":{count:10,outof:1000},"3":{count:1,outof:5}}
ModesAggregate == <<[key |-> "0", c |-> 10, o |-> 1000],
                    [key |-> "3", c |-> 1, o |-> 5]>>
\* {"2":{count:5,outof:50},"5":{count:1,outof:500}}
ModesLargest == <<[key |-> "2", c |-> 5, o |-> 50],
                  [key |-> "5", c |-> 1, o |-> 500]>>
\* entries that all fail the validity test
ModesInvalid == <<[key |-> "0", c |-> -1, o |-> 5],
                  [key |-> "2", c |-> 5, o |-> -50]>>

\* two valid entries of the same sample size
ModesTie == <<[key |-> "2", c |-> 1, o |-> 5],
              [key |-> "5", c |-> 2, o |-> 5]>>

\* a modes table: present or not, and its entries (distinct keys)
ModesForms ==
  {[present |-> FALSE, entries |-> <<>>]}
  \cup {[present |-> TRUE, entries |-> es] :
          es \in {ModesAggregate, ModesLargest, ModesInvalid, ModesTie}
                 \cup {es \in UNION {[1..k -> GenEntries] : k \in 0..MaxModes} :
                         DistinctKeys(es)}}

\* "key":{"count":c,"outof":o}
RenderEntry(e) ==
  Quoted(<<e.key>>) \o <<":", "{">> \o CountField(e.c) \o <<",">>
    \o OutofField(e.o) \o <<"}">>

RECURSIVE JoinComma(_)
JoinComma(parts) ==
  IF parts = <<>> THEN <<>>
  ELSE IF Len(parts) = 1 THEN parts[1]
  ELSE parts[1] \o <<",">> \o JoinComma(Tail(parts))

\* "modes":{...}
RenderModes(m) ==
  IF ~m.present THEN <<>>
  ELSE << Quoted(L_modes) \o <<":", "{">>
            \o JoinComma([k \in 1..Len(m.entries) |-> RenderEntry(m.entries[k])])
            \o <<"}">> >>

\* one valid entry whose count exceeds its outof
ModesOver == <<[key |-> "2", c |-> 7, o |-> 5]>>

StackForms == {"none", "pair", "desc", "single", "bare", "nested"}

\* the text of the stack field
RenderStack(f) ==
  CASE f = "pair"   -> <<Quoted(L_stack) \o <<":", "[", "5", ",", "1", "0", "]">> >>
    [] f = "desc"   -> <<Quoted(L_stack) \o <<":", "[", "1", "0", ",", "5", "]">> >>
    [] f = "single" -> <<Quoted(L_stack) \o <<":", "[", "7", "]">> >>
    [] f = "bare"   -> <<L_stack \o <<" ", ":", " ", "[", " ", "2", "0", " ", ",",
                                      " ", "4", "0", " ", "]">> >>
    [] f = "nested" -> <<Quoted(L_stack) \o <<":", "[", "3", "]">>,
                         Quoted(<<"x">>) \o <<":", "{">> \o Quoted(L_stack)
                           \o <<":", "[", "5", ",", "1", "0", "]", "}">> >>
    [] OTHER        -> <<>>

\* the tables given as examples, and no table
SampleModes ==
  {[present |-> FALSE, entries |-> <<>>]}
  \cup {[present |-> TRUE, entries |-> es] :
          es \in {ModesAggregate, ModesLargest, ModesInvalid, ModesTie}}

\* Every form of explicit field and of direct count/outof fields with the
\* sample tables in either order; every generated table with and without a
\* direct pair; values above 100 percent from each strategy; every form of
\* stack field.
ItemObjects ==
  [chance : ChanceForms, top : TopForms, modes : SampleModes,
   modesFirst : BOOLEAN, stack : {"none"}]
  \cup [chance : {"none"},
        top : {[kind |-> "none", c |-> 0, o |-> 0],
               [kind |-> "adjacent", c |-> 3, o |-> 4]},
        modes : ModesForms, modesFirst : {FALSE}, stack : {"none"}]
  \cup [chance : {"none", "big"},
        top : {[kind |-> "none", c |-> 0, o |-> 0],
               [kind |-> "adjacent", c |-> 5, o |-> 2]},
        modes : {[present |-> FALSE, entries |-> <<>>],
                 [present |-> TRUE, entries |-> ModesOver]},
        modesFirst : {FALSE}, stack : {"none"}]
  \cup [chance : {"none", "plain"},
        top : {[kind |-> "none", c |-> 0, o |-> 0]},
        modes : {[present |-> FALSE, entries |-> <<>>]},
        modesFirst : {FALSE}, stack : StackForms]

\* {"id":7, chance, modes and direct fields in either order, stack}
RenderItem(o) ==
  <<"{">>
  \o JoinComma(<< Quoted(L_id) \o <<":", "7">> >>
               \o RenderChance(o.chance)
               \o (IF o.modesFirst
                   THEN RenderModes(o.modes) \o RenderTop(o.top)
                   ELSE RenderTop(o.top) \o RenderModes(o.modes))
               \o RenderStack(o.stack))
  \o <<"}">>

\* ------------------------------------------------------------------------
\* State machine: one invocation of a function per step
\* ------------------------------------------------------------------------
Inputs == ShortTexts \cup SampleTexts

Init ==
  /\ text \in Inputs
  /\ src = None
  /\ op = "init"
  /\ arg = <<>>
  /\ result = None
  /\ aux = None

Match ==
  \E start \in 0..(Len(text) - 1), p \in BracketPairs :
    /\ text[start + 1] = p[1]
    /\ op' = "find_matching_bracket"
    /\ arg' = <<start, p[1], p[2]>>
    /\ result' = find_matching_bracket(text, start, p[1], p[2])
    /\ aux' = FmbScan(text, start, p[1], p[2])
    /\ UNCHANGED <<text, src>>

DepthAt ==
  \E idx \in 0..Len(text) :
    /\ op' = "compute_depth_at"
    /\ arg' = <<idx>>
    /\ result' = compute_depth_at(text, idx)
    /\ aux' = CdaScan(text, idx)
    /\ UNCHANGED <<text, src>>

Extract ==
  /\ op' = "extract_objects_from_array_str"
  /\ arg' = <<>>
  /\ result' = extract_objects_from_array_str(text)
  /\ aux' = ExtractSpans(text)
  /\ UNCHANGED <<text, src>>

Next == Match \/ DepthAt \/ Extract

Spec == Init /\ [][Next]_vars

\* The item decoder applied to rendered item objects.  A behaviour decodes
\* its object text once, with either function; both are pure, so a second
\* call on the same text would return the same value.
ItemInit ==
  /\ src \in ItemObjects
  /\ text = RenderItem(src)
  /\ op = "init"
  /\ arg = <<>>
  /\ result = None
  /\ aux = None

ParseItem ==
  /\ op = "init"
  /\ op' = "parse_item_object"
  /\ arg' = <<>>
  /\ result' = parse_item_object(text)
  /\ aux' = None
  /\ UNCHANGED <<text, src>>

ModesPercent ==
  /\ op = "init"
  /\ op' = "extract_percent_from_modes"
  /\ arg' = <<>>
  /\ result' = extract_percent_from_modes(text)
  /\ aux' = None
  /\ UNCHANGED <<text, src>>

ItemNext == ParseItem \/ ModesPercent

ItemSpec == ItemInit /\ [][ItemNext]_vars

\* ------------------------------------------------------------------------
\* Reference notions used by the properties (string literals as spans)
\* ------------------------------------------------------------------------
\* Index of the quote that closes a string opened with q, searching from i;
\* a backslash inside the string takes the next character with it.
\* Len(s) when the string is never closed.
RECURSIVE StrEnd(_, _, _)
StrEnd(s, i, q) ==
  IF i >= Len(s) THEN Len(s)
  ELSE IF s[i + 1] = BS THEN StrEnd(s, i + 2, q)
  ELSE IF s[i + 1] = q THEN i
  ELSE StrEnd(s, i + 1, q)

\* Indices >= i of the characters that lie outside every quoted string, the
\* scan being outside a string at i.
RECURSIVE OutsideFrom(_, _)
OutsideFrom(s, i) ==
  IF i >= Len(s) THEN {}
  ELSE IF s[i + 1] \in Quotes
       THEN OutsideFrom(s, StrEnd(s, i + 1, s[i + 1]) + 1)
       ELSE {i} \cup OutsideFrom(s, i + 1)

\* open_ch minus close_ch outside strings among the indices from..(to-1)
RefDepth(s, from, to, open_ch, close_ch) ==
  LET O == OutsideFrom(s, from)
  IN  Cardinality({j \in O : j < to /\ s[j + 1] = open_ch})
      - Cardinality({j \in O : j < to /\ s[j + 1] = close_ch})

\* The closing delimiter that brings the depth opened at start back to zero.
RefMatch(s, start, open_ch, close_ch) ==
  LET C == {k \in OutsideFrom(s, start) :
              /\ s[k + 1] = close_ch
              /\ RefDepth(s, start, k + 1, open_ch, close_ch) = 0}
  IN  IF C = {} THEN -1 ELSE Min(C)

\* Number of backslashes immediately before index i, not looking before from.
RECURSIVE BsRun(_, _, _)
BsRun(s, i, from) ==
  IF i > from /\ s[i] = BS THEN 1 + BsRun(s, i - 1, from) ELSE 0

\* The character at index i is preceded by an unescaped backslash.
EscapedAt(s, i, from) == BsRun(s, i, from) % 2 = 1

\* ------------------------------------------------------------------------
\* Properties of the bracket-depth scanner
\* ------------------------------------------------------------------------
\* C1: when the delimiter opened at the start index is closed outside quoted
\* strings, find_matching_bracket returns the index of the closing delimiter
\* that brings the depth back to zero; delimiters inside quoted strings
\* (also after an escaped quote in the string) do not count.
C1_MatchReturnsClosing ==
  op = "find_matching_bracket" =>
    LET ref == RefMatch(text, arg[1], arg[2], arg[3])
    IN  ref # -1 => result = ref

C1_Witness ==
  /\ op = "find_matching_bracket"
  /\ text = TextEsc
  /\ arg = <<0, "{", "}">>
  /\ result = 18

\* C2: when the depth opened at the start index never returns to zero,
\* find_matching_bracket returns -1 and never an index of the text.
C2_DanglingReturnsNotFound ==
  op = "find_matching_bracket" =>
    (RefMatch(text, arg[1], arg[2], arg[3]) = -1 => result = -1)

C2_Witness ==
  /\ op = "find_matching_bracket"
  /\ text = <<"{", Q, "}", Q>>
  /\ arg = <<0, "{", "}">>
  /\ result = -1

\* C3: compute_depth_at(text, index) is the number of '{' minus the number of
\* '}' outside quoted strings in text[0:index); in {"x":{"y":1}} the depth is
\* 1 at the index of "x" and 2 at the index of "y".
C3_DepthAtCountsPrefix ==
  op = "compute_depth_at" =>
    /\ result = RefDepth(text, 0, arg[1], "{", "}")
    /\ (text = TextXY /\ arg[1] = 1) => result = 1
    /\ (text = TextXY /\ arg[1] = 6) => result = 2

C3_Witness ==
  /\ op = "compute_depth_at"
  /\ text = TextXY
  /\ arg = <<6>>
  /\ result = 2

\* The last character consumed by the invocation in the current state is a
\* quote character that follows an unescaped backslash.
LastIsEscapedQuote ==
  \/ /\ op = "compute_depth_at"
     /\ arg[1] >= 2
     /\ text[arg[1]] \in Quotes
     /\ EscapedAt(text, arg[1] - 1, 0)
  \/ /\ op = "find_matching_bracket"
     /\ result = -1
     /\ Len(text) - arg[1] >= 2
     /\ text[Len(text)] \in Quotes
     /\ EscapedAt(text, Len(text) - 1, arg[1])

\* Quote mode of the same scan just before that last character.
InStrBeforeLast ==
  IF op = "compute_depth_at"
  THEN CdaScan(text, arg[1] - 1).in_str
  ELSE FmbScan(SubSeq(text, 1, Len(text) - 1), arg[1], arg[2], arg[3]).in_str

\* C4 (as stated): a quote character preceded by an unescaped backslash
\* neither enters nor leaves quote mode, anywhere in the text, in
\* find_matching_bracket and in compute_depth_at.
C4_EscapeEverywhere ==
  LastIsEscapedQuote => aux.in_str = InStrBeforeLast

\* C4 (amended): the backslash escapes the next character only inside a
\* quoted string: there a quote preceded by an unescaped backslash does not
\* leave quote mode; outside a string the backslash has no effect and the
\* quote that follows it enters quote mode, in both functions.
C4_EscapeInsideStringsOnly ==
  LastIsEscapedQuote =>
    /\ InStrBeforeLast # None => aux.in_str = InStrBeforeLast
    /\ InStrBeforeLast = None =>
         aux.in_str = text[IF op = "compute_depth_at" THEN arg[1] ELSE Len(text)]

C4_Witness ==
  /\ op = "compute_depth_at"
  /\ text = <<Q, BS, Q, "}">>
  /\ arg = <<3>>
  /\ aux.in_str = Q

\* ------------------------------------------------------------------------
\* Properties of the object extractor
\* ------------------------------------------------------------------------
\* C5: the emitted substrings are in document order, do not overlap, and each
\* starts at a '{' and ends at the '}' matching it ({a:1},{b:2} gives exactly
\* {a:1} and {b:2}); an object whose closing brace is missing is not emitted.
C5_ObjectsBalanced ==
  op = "extract_objects_from_array_str" =>
    /\ \A k \in 1..Len(aux) :
         /\ text[aux[k][1] + 1] = "{"
         /\ RefMatch(text, aux[k][1], "{", "}") = aux[k][2] - 1
         /\ result[k] = Slice(text, aux[k][1], aux[k][2])
    /\ \A k \in 1..(Len(aux) - 1) : aux[k][2] <= aux[k + 1][1]
    /\ text = TextAB =>
         result = <<Slice(TextAB, 0, 5), Slice(TextAB, 6, 11)>>

\* C6: a capture starts only at a '{' that is outside every quoted string and
\* at the top level of the array body.
C6_CaptureOnlyOutsideQuotes ==
  op = "extract_objects_from_array_str" =>
    \A k \in 1..Len(aux) :
      /\ aux[k][1] \in OutsideFrom(text, 0)
      /\ RefDepth(text, 0, aux[k][1], "{", "}") <= 0

\* ------------------------------------------------------------------------
\* Reference notions for the drop-chance resolver, read off the description
\* of the object (not off its text)
\* ------------------------------------------------------------------------
\* the value of the explicit chance field, rounded to 2 decimals
RefExplicit(o) ==
  CASE o.chance \in {"plain", "quoted"} -> <<55, 10>>
    [] o.chance = "pct" -> <<1235, 100>>
    [] o.chance = "big" -> <<150, 1>>
    [] OTHER -> NoPct

\* a count and a later outof that are both direct members of the object, with
\* outof > 0 and count >= 0
RefTopPair(o) ==
  IF o.top.kind \in {"adjacent", "spaced"} /\ o.top.o > 0 /\ o.top.c >= 0
  THEN Pct(o.top.c, o.top.o)
  ELSE NoPct

RefValidEntries(o) ==
  IF ~o.modes.present THEN {}
  ELSE {e \in {o.modes.entries[k] : k \in 1..Len(o.modes.entries)} :
          e.o > 0 /\ e.c >= 0}

\* the percentages the modes table may resolve to
RefModes(o) ==
  LET V == RefValidEntries(o)
  IN  IF \E e \in V : e.key = "0"
      THEN {Pct(e.c, e.o) : e \in {e \in V : e.key = "0"}}
      ELSE {Pct(e.c, e.o) : e \in {e \in V : \A f \in V : f.o <= e.o}}

\* dc is what the modes table resolves to (None when nothing is usable)
IsModesResult(o, dc) ==
  IF RefModes(o) = {} THEN dc = NoPct
  ELSE \E r \in RefModes(o) : RatEq(dc, r)

\* dc is what the strategies after the explicit field resolve to
IsLaterResult(o, dc) ==
  IF RefTopPair(o) # NoPct THEN RatEq(dc, RefTopPair(o))
  ELSE IsModesResult(o, dc)

\* ------------------------------------------------------------------------
\* Properties of the drop-chance resolver
\* ------------------------------------------------------------------------
\* C7 (as stated): the explicit field is tried first and wins; an object with
\* an explicit chance field, also when written as "chance":"5.5", and a modes
\* table resolves to 5.5, never to a value of the modes table.
C7_ExplicitWinsAlsoQuoted ==
  (op = "parse_item_object" /\ src.chance \in {"plain", "quoted"}
     /\ src.modes.present) =>
    RatEq(result.drop_chance, <<55, 10>>)

\* C7 (amended): the explicit field is tried first and wins when its value is
\* a bare number: "chance":5.5 resolves to 5.5 and "pct":12.346 to 12.35
\* whatever count/outof pair or modes table the object has; a chance field
\* whose value is a quoted string ("chance":"5.5") is not an explicit field,
\* and the count/outof pair, then the modes table, decide.
C7_ExplicitBareNumberWins ==
  op = "parse_item_object" =>
    /\ src.chance \in {"plain", "pct"} =>
         RatEq(result.drop_chance, RefExplicit(src))
    /\ src.chance = "quoted" => IsLaterResult(src, result.drop_chance)

C7_Witness ==
  /\ op = "parse_item_object"
  /\ src.chance = "plain"
  /\ src.modes.entries = ModesAggregate
  /\ src.top.kind = "adjacent"
  /\ RatEq(result.drop_chance, <<55, 10>>)

\* C8: without an explicit field, a count and a later outof that both lie at
\* brace depth 1 give 100*count/outof when outof > 0 and count >= 0; a pair
\* inside a child object is not used, and when the pair is absent or invalid
\* the modes table decides.
C8_TopLevelPair ==
  (op = "parse_item_object" /\ src.chance = "none") =>
    /\ RefTopPair(src) # NoPct => RatEq(result.drop_chance, RefTopPair(src))
    /\ RefTopPair(src) = NoPct => IsModesResult(src, result.drop_chance)
    /\ result.drop_chance # NoPct => result.drop_chance[2] > 0

C8_Witness ==
  /\ op = "parse_item_object"
  /\ src.chance = "none"
  /\ src.top = [kind |-> "adjacent", c |-> 3, o |-> 0]
  /\ src.modes.entries = ModesLargest
  /\ RatEq(result.drop_chance, <<1, 5>>)

C11_ChanceWithinHundred ==
  (op = "parse_item_object" /\ result.id # NoInt
     /\ result.drop_chance # NoPct) =>
    /\ 0 <= result.drop_chance[1]
    /\ result.drop_chance[1] <= 100 * result.drop_chance[2]

\* C12: min_count <= max_count whenever both are set, also for a stack array
\* that lists its numbers in descending order ("stack":[10,5]).
C12_MinAtMostMax ==
  (op = "parse_item_object" /\ result.min_count # NoInt
     /\ result.max_count # NoInt) =>
    result.min_count <= result.max_count

\* C13: "stack":[a,b] gives min_count = a and max_count = b, "stack":[v]
\* gives min_count = max_count = v, no stack field gives neither; the two
\* counts are both present or both absent.  (The key may be unquoted and
\* the numbers spaced; when an object holds both forms, the two-element
\* array is the one taken.)
C13_StackParsing ==
  op = "parse_item_object" =>
    /\ src.stack = "pair" => (result.min_count = 5 /\ result.max_count = 10)
    /\ src.stack = "desc" => (result.min_count = 10 /\ result.max_count = 5)
    /\ src.stack = "single" => (result.min_count = 7 /\ result.max_count = 7)
    /\ src.stack = "bare" => (result.min_count = 20 /\ result.max_count = 40)
    /\ src.stack = "nested" => (result.min_count = 5 /\ result.max_count = 10)
    /\ src.stack = "none" =>
         (result.min_count = NoInt /\ result.max_count = NoInt)
    /\ (result.min_count = NoInt) <=> (result.max_count = NoInt)

C13_Witness ==
  /\ op = "parse_item_object"
  /\ src.stack = "pair"
  /\ src.chance = "plain"
  /\ result.min_count = 5
  /\ result.max_count = 10


\* ------------------------------------------------------------------------
\* parser.py: the document-level entry points parse_npc_loot_data,
\* parse_object_loot_data and parse_item_loot_data
\* ------------------------------------------------------------------------
L_listview == <<"n", "e", "w", " ", "L", "i", "s", "t", "v", "i", "e", "w">>
L_drops == <<"d", "r", "o", "p", "s">>
L_contains == <<"c", "o", "n", "t", "a", "i", "n", "s">>
L_data == <<"d", "a", "t", "a">>

\* [A-Za-z0-9_\$\.]
IdentChars ==
  {UpperChars[k] : k \in 1..26} \cup {LowerChars[k] : k \in 1..26}
    \cup Digit \cup {"_", "$", "."}

\* [^...]* (greedy)
StarNot(set) == Cls(set, TRUE, 0, TRUE, FALSE)

\* new Listview\s*\(
P_listview == <<Lit(L_listview), Star(WS), Lit(<<"(">>)>>

\* id\s*:\s*['\"]drops['\"]
P_drops ==
  <<Lit(L_id)>> \o P_colon \o <<One(Quotes), Lit(L_drops), One(Quotes)>>

\* id\s*:\s*['\"][^'\"]*(contains)[^'\"]*['\"], used under re.I
P_contains ==
  <<Lit(L_id)>> \o P_colon
    \o <<One(Quotes), StarNot(Quotes), Open(1), Lit(L_contains), Close(1),
         StarNot(Quotes), One(Quotes)>>

\* data\s*:\s*\[
P_data_array == <<Lit(L_data)>> \o P_colon \o <<Lit(<<"[">>)>>

\* data\s*:\s*(\[|[A-Za-z0-9_\$\.]+)
P_data ==
  <<Lit(L_data)>> \o P_colon
    \o <<Open(1), Alt(<< <<Lit(<<"[">>)>>, <<Plus(IdentChars)>> >>), Close(1)>>

\* (?:var\s+|window\.)? re.escape(varname) \s*=\s*\[, used under re.I
P_assign(varname) ==
  <<Opt(<<Alt(<< <<Lit(<<"v", "a", "r">>), Plus(WS)>>,
                 <<Lit(<<"w", "i", "n", "d", "o", "w", ".">>)>> >>)>>),
    Lit(varname), Star(WS), Lit(<<"=">>), Star(WS), Lit(<<"[">>)>>

\* The ceiling of the item ids kept.  parser.py reads it under the name
\* MAX_ITEM_ID; config.py sets the value under the name MAX_ITEM_ID_LEGION.
MAX_ITEM_ID == 157831
EXCLUDED_ITEM_IDS ==
  {124124, 138482, 138786, 141689, 141690, 147579, 138781, 138782,
   140220, 140221, 140222, 140224, 140225, 140226, 140227, 144345,
   147869, 138019, -1275}
QUEST_ITEM_CLASS == 12
\* the reach of the scan window on either side of a block
ScanWindow == 5000

\* The call sites of a document: for each match of new Listview( the index
\* of the next '{' and of its matching '}' (-1 when there is none).
SiteBraces(html, brace_idx) ==
  [brace_idx |-> brace_idx,
   end_brace |-> IF brace_idx = -1 THEN -1
                 ELSE find_matching_bracket(html, brace_idx, "{", "}")]

SiteOf(html, m) == SiteBraces(html, Find(html, "{", m.end))

ListviewSites(html) ==
  LET ms == re_finditer(html, P_listview, FALSE)
  IN  [k \in 1..Len(ms) |-> SiteOf(html, ms[k])]

\* s[start+1:end] of the array opened at start; no text (the call site is
\* skipped) when there is no '[' or it is not closed
ArrayAt(s, start) ==
  IF start = -1 THEN <<>>
  ELSE LET end == find_matching_bracket(s, start, "[", "]")
       IN  IF end = -1 THEN <<>> ELSE Slice(s, start + 1, end)

\* data_str of the array whose '[' is the first one from index from on
ArrayFrom(s, from) == ArrayAt(s, Find(s, "[", from))

\* Variant: an object without id is kept, with no id.
IsItemAlways(item) == TRUE

\* if item_data: the object decoded to an item
IsItem(item) == item # NoItem

\* candidate_loot: the objects of the array body that decode to an item
CandidateLoot(data_str) ==
  LET obj_strs == extract_objects_from_array_str(data_str)
  IN  SelectSeq([k \in 1..Len(obj_strs) |-> parse_item_object(obj_strs[k])],
                IsItem)

\* max(..., key=len): the first of the longest lists
LargestLoot(loots) ==
  IF Len(loots) = 0 THEN <<>>
  ELSE loots[Min({k \in 1..Len(loots) :
                    \A j \in 1..Len(loots) : Len(loots[j]) <= Len(loots[k])})]

\* Variant: an id equal to the ceiling is dropped too.
KeepItemBelowCeiling(item) ==
  /\ item.id # NoInt
  /\ item.id < MAX_ITEM_ID
  /\ item.id \notin EXCLUDED_ITEM_IDS

\* The final loop over the chosen loot: ids above the ceiling and excluded
\* ids are skipped.  (The name and the flags of an item are not modelled, so
\* is_quest is the class test alone and the recipe fields are left out.)
KeepItem(item) ==
  /\ item.id # NoInt
  /\ ~(item.id > MAX_ITEM_ID)
  /\ item.id \notin EXCLUDED_ITEM_IDS

OutItem(item) ==
  [id |-> item.id, quality |-> item.quality,
   is_quest |-> (item.classs = QUEST_ITEM_CLASS),
   is_legendary |-> (item.quality >= 5),
   drop_chance |-> item.drop_chance, min_count |-> item.min_count,
   max_count |-> item.max_count, classs |-> item.classs,
   subclass |-> item.subclass]

FilterItems(loot) ==
  LET kept == SelectSeq(loot, KeepItem)
  IN  [k \in 1..Len(kept) |-> OutItem(kept[k])]

\* Variant: no warning line is printed.
OutcomeNoWarning(loot, candidates) ==
  [items |-> IF Len(loot) = 0 THEN <<>> ELSE FilterItems(loot),
   warnings |-> 0,
   candidates |-> candidates]

\* What a call returns and prints: the items, the number of warning lines,
\* and (for the properties) the candidates it had collected.
Outcome(loot, candidates) ==
  [items |-> IF Len(loot) = 0 THEN <<>> ELSE FilterItems(loot),
   warnings |-> IF Len(loot) = 0 THEN 1 ELSE 0,
   candidates |-> candidates]

NonEmptyLoot(loot) == Len(loot) > 0

\* ---- parse_npc_loot_data ----
NpcBlock(block) ==
  IF ~IsHit(re_search(block, P_drops, FALSE)) THEN <<>>
  ELSE LET data_key == re_search(block, P_data_array, FALSE)
       IN  IF ~IsHit(data_key) THEN <<>>
           ELSE CandidateLoot(ArrayFrom(block, data_key.start))

\* the candidate_loot of one call site, empty when the site is skipped
NpcSite(html, site) ==
  IF site.end_brace = -1 THEN <<>>
  ELSE NpcBlock(Slice(html, site.brace_idx, site.end_brace + 1))

NpcCandidates(html) ==
  LET sites == ListviewSites(html)
  IN  SelectSeq([k \in 1..Len(sites) |-> NpcSite(html, sites[k])],
                NonEmptyLoot)

parse_npc_loot_data(html) ==
  LET candidates == NpcCandidates(html)
  IN  Outcome(LargestLoot(candidates), candidates)

\* ---- parse_object_loot_data and parse_item_loot_data (the same code) ----
ContainsLabelled(block) == IsHit(re_search(block, P_contains, TRUE))

\* Variant: only a block that passes the label test is taken.
BlockAcceptedLabelOnly(block) == ContainsLabelled(block)

\* the block passes the label test or has an inline data array
BlockAccepted(block) ==
  ContainsLabelled(block) \/ IsHit(re_search(block, P_data_array, FALSE))

\* var_idx (-1: the call site is skipped): the whole document is searched
\* first, and the window around the block only when that found nothing
VarIdx(html, site, pat) ==
  LET mvar == re_search(html, pat, TRUE)
      scan_start == Max({0, site.brace_idx - ScanWindow})
      scan_end == Min({Len(html), site.end_brace + ScanWindow})
      wvar == re_search(Slice(html, scan_start, scan_end), pat, TRUE)
  IN  IF IsHit(mvar) THEN mvar.start
      ELSE IF IsHit(wvar) THEN scan_start + wvar.start
      ELSE -1

\* data_str of a variable reference.  (varname is group 1 stripped; the
\* group's class holds no white space, so strip() leaves it as it is.)
VarData(html, site, varname) ==
  LET var_idx == VarIdx(html, site, P_assign(varname))
  IN  IF var_idx = -1 THEN <<>> ELSE ArrayFrom(html, var_idx)

\* candidate_loot of the block, empty when the call site is skipped
ContainsLoot(html, site, block) ==
  IF ~BlockAccepted(block) THEN <<>>
  ELSE LET mdata == re_search(block, P_data, FALSE)
       IN  IF ~IsHit(mdata) THEN <<>>
           ELSE IF Group(block, mdata, 1) = <<"[">>
                THEN CandidateLoot(ArrayFrom(block, mdata.start))
                ELSE CandidateLoot(VarData(html, site, Group(block, mdata, 1)))

\* the tuple (candidate_loot, is_contains) of one call site
ContainsSite(html, site) ==
  IF site.end_brace = -1 THEN [loot |-> <<>>, is_contains |-> FALSE]
  ELSE LET block == Slice(html, site.brace_idx, site.end_brace + 1)
           loot == ContainsLoot(html, site, block)
       IN  [loot |-> loot,
            is_contains |-> IF Len(loot) = 0 THEN FALSE
                            ELSE ContainsLabelled(block)]

HasLoot(c) == Len(c.loot) > 0

\* Variant: the scan of the call sites ends at the first one that yields
\* no candidate.
ContainsCandidatesUntilSkip(html) ==
  LET sites == ListviewSites(html)
      all == [k \in 1..Len(sites) |-> ContainsSite(html, sites[k])]
      bad == {k \in 1..Len(sites) : ~HasLoot(all[k])}
  IN  IF bad = {} THEN all ELSE SubSeq(all, 1, Min(bad) - 1)

ContainsCandidates(html) ==
  LET sites == ListviewSites(html)
  IN  SelectSeq([k \in 1..Len(sites) |-> ContainsSite(html, sites[k])],
                HasLoot)

IsContains(c) == c.is_contains

Loots(candidates) == [k \in 1..Len(candidates) |-> candidates[k].loot]

\* Variant: the largest candidate is taken whatever its label.
SelectLootLargest(candidates) == LargestLoot(Loots(candidates))

\* the loot chosen among the candidates
SelectLoot(candidates) ==
  IF Len(SelectSeq(candidates, IsContains)) > 0
  THEN LargestLoot(Loots(SelectSeq(candidates, IsContains)))
  ELSE LargestLoot(Loots(candidates))

ContainsOutcome(candidates) == Outcome(SelectLoot(candidates), candidates)

parse_object_loot_data(html) == ContainsOutcome(ContainsCandidates(html))

parse_item_loot_data(html) == ContainsOutcome(ContainsCandidates(html))

\* ------------------------------------------------------------------------
\* Documents.  A document is described by its array assignments and its
\* call-site blocks and rendered to the text the entry points are given.
\*   block: label  "drops" | "contains" | "upper" | "other" | "none"
\*          data   "inline" | "var" | "none"
\*          items  the ids of the objects of the inline array, 0 for an
\*                 object without id
\*          fail   "none" | "nobrace" (no object literal) | "openbrace"
\*                 (the '}' is missing) | "openarr" (the ']' is missing)
\*   var:   form   "var" | "window" | "bare" | "upper"
\*          items  as above
\*          far    the assignment stands more than ScanWindow characters
\*                 before the first block
\* ------------------------------------------------------------------------
MaxItems == 4

L_lv == <<"l", "v">>

Ids(from, n) == [k \in 1..n |-> from + k - 1]

\* {"id":n}, or {"x":0} for an object without id
RenderObj(n) ==
  IF n = 0 THEN <<"{", Q, "x", Q, ":", "0", "}">>
  ELSE <<"{">> \o Quoted(L_id) \o <<":">> \o NatDigits(n) \o <<"}">>

RenderObjs(items) == JoinComma([k \in 1..Len(items) |-> RenderObj(items[k])])

RenderLabel(label) ==
  CASE label = "drops"    -> <<L_id \o <<":", SQ>> \o L_drops \o <<SQ>> >>
    [] label = "contains" -> <<L_id \o <<":", SQ>> \o L_contains \o <<SQ>> >>
    [] label = "upper"    ->
         <<L_id \o <<" ", ":", " ", Q, "I", "t", "e", "m", "-", "C", "o", "n",
                     "t", "a", "i", "n", "s", Q>> >>
    [] label = "other"    ->
         <<L_id \o <<":", SQ, "s", "o", "l", "d", "-", "b", "y", SQ>> >>
    [] OTHER              -> <<>>

RenderData(b) ==
  CASE b.data = "inline" ->
         <<L_data \o <<":", "[">> \o RenderObjs(b.items)
             \o (IF b.fail = "openarr" THEN <<>> ELSE <<"]">>) >>
    [] b.data = "var"    -> <<L_data \o <<":">> \o L_lv>>
    [] OTHER             -> <<>>

\* new Listview({label,data});
RenderBlock(b) ==
  L_listview \o <<"(">>
    \o (IF b.fail = "nobrace" THEN <<"x">>
        ELSE <<"{">> \o JoinComma(RenderLabel(b.label) \o RenderData(b))
               \o (IF b.fail = "openbrace" THEN <<>> ELSE <<"}">>))
    \o <<")", ";">>

RenderVar(v) ==
  (CASE v.form = "var"    -> <<"v", "a", "r", " ", "l", "v", "=">>
     [] v.form = "window" -> <<"w", "i", "n", "d", "o", "w", ".", "l", "v", "=">>
     [] v.form = "upper"  -> <<"L", "V", " ", "=", " ">>
     [] OTHER             -> <<"l", "v", "=">>)
    \o <<"[">> \o RenderObjs(v.items) \o <<"]", ";">>

RECURSIVE Concat(_)
Concat(parts) ==
  IF Len(parts) = 0 THEN <<>> ELSE Head(parts) \o Concat(Tail(parts))

Padding == [k \in 1..(ScanWindow + 1) |-> "-"]

IsFar(v) == v.far
IsNear(v) == ~v.far

\* far assignments, the padding that puts them out of the windows, near
\* assignments, blocks
RenderDoc(d) ==
  Concat([k \in 1..Len(SelectSeq(d.vars, IsFar)) |->
            RenderVar(SelectSeq(d.vars, IsFar)[k])])
    \o (IF Len(SelectSeq(d.vars, IsFar)) > 0 THEN Padding ELSE <<>>)
    \o Concat([k \in 1..Len(SelectSeq(d.vars, IsNear)) |->
                 RenderVar(SelectSeq(d.vars, IsNear)[k])])
    \o Concat([k \in 1..Len(d.blocks) |-> RenderBlock(d.blocks[k])])

Block(label, data, items, fail) ==
  [label |-> label, data |-> data, items |-> items, fail |-> fail]

Var(form, items, far) == [form |-> form, items |-> items, far |-> far]

\* two well-formed blocks with inline arrays of every pair of labels and
\* sizes: a labelled block beside an unlabelled one that is smaller or larger
PairDocs ==
  {[vars |-> <<>>,
    blocks |-> <<Block(l1, "inline", Ids(1, n1), "none"),
                 Block(l2, "inline", Ids(21, n2), "none")>>] :
     l1 \in {"drops", "contains", "none"}, n1 \in {1, MaxItems - 1},
     l2 \in {"drops", "upper", "other", "none"},
     n2 \in {1, MaxItems - 1, MaxItems}}

\* one block: no object, objects without id, every block-level failure, no
\* data field
SingleDocs ==
  {[vars |-> <<>>, blocks |-> <<Block(l, "inline", items, f)>>] :
     l \in {"drops", "contains", "none"},
     items \in {<<>>, <<0>>, <<1, 0, 2>>, <<0, 3>>},
     f \in {"none", "nobrace", "openbrace", "openarr"}}
  \cup {[vars |-> <<>>, blocks |-> <<Block(l, "none", <<>>, "none")>>] :
          l \in {"drops", "contains", "none"}}

\* a failing call site between two well-formed ones
MiddleBad(l) ==
  {Block(l, "inline", Ids(21, 1), f) : f \in {"nobrace", "openbrace", "openarr"}}
    \cup {Block(l, "var", <<>>, "none")}

MiddleDocs ==
  UNION {{[vars |-> <<>>,
           blocks |-> <<Block(l, "inline", Ids(1, 2), "none"), bad,
                        Block(l, "inline", Ids(41, 1), "none")>>] :
            bad \in MiddleBad(l)} :
         l \in {"drops", "contains"}}

\* a block whose data is the identifier lv: assigned nowhere, once near
\* the block in each form, far from it, and both far from it and near it
VarDocs ==
  {[vars |-> vs, blocks |-> <<Block(l, "var", <<>>, "none")>>] :
     l \in {"contains", "none"},
     vs \in {<<>>} \cup {<<Var(f, <<1, 0, 2>>, FALSE)>> :
                          f \in {"var", "window", "bare", "upper"}}}
  \cup {[vars |-> vs, blocks |-> <<Block("contains", "var", <<>>, "none")>>] :
          vs \in {<<Var("bare", <<9>>, TRUE)>>,
                  <<Var("bare", <<9>>, TRUE), Var("var", <<1, 2>>, FALSE)>>}}

\* no call site at all
BareDocs ==
  {[vars |-> vs, blocks |-> <<>>] :
     vs \in {<<>>, <<Var("var", <<1>>, FALSE)>>}}

Documents == PairDocs \cup SingleDocs \cup MiddleDocs \cup VarDocs \cup BareDocs

\* The entry points applied to rendered documents.  A behaviour parses its
\* document once, with one of the entry points; they are pure, so a second
\* call on the same text would return the same value.
DocInit ==
  /\ src \in Documents
  /\ text = RenderDoc(src)
  /\ op = "init"
  /\ arg = <<>>
  /\ result = None
  /\ aux = None

Returned(name, out) ==
  /\ op' = name
  /\ arg' = <<>>
  /\ result' = out.items
  /\ aux' = [warnings |-> out.warnings, candidates |-> out.candidates]
  /\ UNCHANGED <<text, src>>

ParseNpcLoot ==
  /\ op = "init"
  /\ Returned("parse_npc_loot_data", parse_npc_loot_data(text))

ParseObjectLoot ==
  /\ op = "init"
  /\ Returned("parse_object_loot_data", parse_object_loot_data(text))

ParseItemLoot ==
  /\ op = "init"
  /\ Returned("parse_item_loot_data", parse_item_loot_data(text))

DocNext == ParseNpcLoot \/ ParseObjectLoot \/ ParseItemLoot

DocSpec == DocInit /\ [][DocNext]_vars

\* ------------------------------------------------------------------------
\* Reference notions for documents, read off the description of a document
\* instead of its text
\* ------------------------------------------------------------------------
DocOps ==
  {"parse_npc_loot_data", "parse_object_loot_data", "parse_item_loot_data"}

ContainsOps == {"parse_object_loot_data", "parse_item_loot_data"}

\* the label an entry point expects
Family(name) == IF name = "parse_npc_loot_data" THEN "drops" ELSE "contains"

IsId(n) == n > 0

\* the ids of the objects that have one, in their order
PosIds(items) == SelectSeq(items, IsId)

IdsOf(items) == [k \in 1..Len(items) |-> items[k].id]

\* the block carries the label of the family
Preferred(fam, b) ==
  IF fam = "drops" THEN b.label = "drops" ELSE b.label \in {"contains", "upper"}

\* The block whose object literal call site k takes: its own or, after a
\* call without object literal, the next one of the document (0: none).
EffBlock(d, k) ==
  IF {j \in k..Len(d.blocks) : d.blocks[j].fail # "nobrace"} = {} THEN 0
  ELSE Min({j \in k..Len(d.blocks) : d.blocks[j].fail # "nobrace"})

\* the ids a reference to lv resolves to: the first assignment of the text
RefVarIds(d) == IF Len(d.vars) = 0 THEN <<>> ELSE PosIds(d.vars[1].items)

\* the ids of the candidate of block b, none when the block yields none
RefIds(d, fam, b) ==
  IF b.fail \in {"openbrace", "openarr"} THEN <<>>
  ELSE IF fam = "drops"
       THEN IF b.label = "drops" /\ b.data = "inline" THEN PosIds(b.items)
            ELSE <<>>
  ELSE IF b.data = "inline" THEN PosIds(b.items)
  ELSE IF b.data = "var" /\ Preferred(fam, b) THEN RefVarIds(d)
  ELSE <<>>

RefSite(d, fam, e) ==
  IF e = 0 THEN [ids |-> <<>>, preferred |-> FALSE]
  ELSE [ids |-> RefIds(d, fam, d.blocks[e]),
        preferred |-> Preferred(fam, d.blocks[e])]

HasIds(c) == Len(c.ids) > 0

IsPreferred(c) == c.preferred

\* the candidates of the call sites in document order
RefCandidates(d, fam) ==
  SelectSeq([k \in 1..Len(d.blocks) |-> RefSite(d, fam, EffBlock(d, k))],
            HasIds)

\* the id lists of the longest candidates
Longest(cs) ==
  {cs[k].ids : k \in {i \in 1..Len(cs) :
                        \A j \in 1..Len(cs) : Len(cs[j].ids) <= Len(cs[i].ids)}}

\* the candidates a call collected, as id lists with their label flag
CandView(name, candidates) ==
  [k \in 1..Len(candidates) |->
     IF name = "parse_npc_loot_data"
     THEN [ids |-> IdsOf(candidates[k]), preferred |-> TRUE]
     ELSE [ids |-> IdsOf(candidates[k].loot),
           preferred |-> candidates[k].is_contains]]

\* every block of the document is well formed
WellFormed(d) == \A k \in 1..Len(d.blocks) : d.blocks[k].fail = "none"

\* ------------------------------------------------------------------------
\* Properties of the document-level entry points
\* ------------------------------------------------------------------------
\* C14: if a candidate of the document carries the preferred label, the
\* result is a preferred candidate with the most items, otherwise a
\* candidate with the most items overall; a labelled block of MaxItems - 1
\* items beside an unlabelled block of 1 or of MaxItems items yields the
\* items of the labelled block.
C14_PreferredThenLargest ==
  op \in DocOps =>
    /\ Len(SelectSeq(RefCandidates(src, Family(op)), IsPreferred)) > 0 =>
         IdsOf(result)
           \in Longest(SelectSeq(RefCandidates(src, Family(op)), IsPreferred))
    /\ (/\ Len(SelectSeq(RefCandidates(src, Family(op)), IsPreferred)) = 0
        /\ Len(RefCandidates(src, Family(op))) > 0) =>
         IdsOf(result) \in Longest(RefCandidates(src, Family(op)))
    /\ \A n \in {1, MaxItems} :
         (/\ src.vars = <<>>
          /\ src.blocks = <<Block(Family(op), "inline", Ids(1, MaxItems - 1), "none"),
                            Block("none", "inline", Ids(21, n), "none")>>) =>
           IdsOf(result) = Ids(1, MaxItems - 1)

C14_Witness ==
  /\ op = "parse_item_loot_data"
  /\ src.blocks = <<Block("contains", "inline", Ids(1, MaxItems - 1), "none"),
                    Block("none", "inline", Ids(21, MaxItems), "none")>>
  /\ IdsOf(result) = Ids(1, MaxItems - 1)
  /\ Len(aux.candidates) = 2

\* C15 as stated: with every entry point, the "drops" one included, when no
\* block carries the expected label a block with a data field that holds
\* items is selected, the one with the most items.
C15_FallbackForEveryCaller ==
  (/\ op \in DocOps
   /\ WellFormed(src)
   /\ \A k \in 1..Len(src.blocks) : ~Preferred(Family(op), src.blocks[k])
   /\ Len(RefCandidates(src, "contains")) > 0) =>
    /\ Len(result) > 0
    /\ IdsOf(result) \in Longest(RefCandidates(src, "contains"))

\* C15 amended: the entry points that match 'contains' keep a block that
\* fails the label check when it holds an inline data array, and select the
\* one with the most items when no block carries the label; the "drops"
\* entry point drops every block that fails the label check and returns
\* nothing, with one warning, when no block is labelled 'drops'.
C15_FallbackForContainsCallers ==
  (/\ op \in DocOps
   /\ WellFormed(src)
   /\ \A k \in 1..Len(src.blocks) : ~Preferred(Family(op), src.blocks[k])) =>
    IF op = "parse_npc_loot_data"
    THEN result = <<>> /\ aux.warnings = 1 /\ aux.candidates = <<>>
    ELSE /\ IdsOf(result) \in
              Longest(<<[ids |-> <<>>, preferred |-> FALSE]>>
                      \o [k \in 1..Len(src.blocks) |->
                            [ids |-> IF src.blocks[k].data = "inline"
                                     THEN PosIds(src.blocks[k].items)
                                     ELSE <<>>,
                             preferred |-> FALSE]])
         /\ Len(aux.candidates) =
              Cardinality({k \in 1..Len(src.blocks) :
                             /\ src.blocks[k].data = "inline"
                             /\ PosIds(src.blocks[k].items) # <<>>})

C15_Witness ==
  /\ op = "parse_object_loot_data"
  /\ src.blocks = <<Block("none", "inline", Ids(1, 1), "none"),
                    Block("other", "inline", Ids(21, MaxItems), "none")>>
  /\ IdsOf(result) = Ids(21, MaxItems)
  /\ aux.warnings = 0

\* C16: the data of a block that names an identifier is the array assigned
\* to it inside the window around the block whenever there is one there,
\* also when the identifier is assigned earlier in the document outside the
\* window.
C16_WindowSearchedFirst ==
  (/\ op \in ContainsOps
   /\ Len(src.blocks) = 1
   /\ src.blocks[1] = Block("contains", "var", <<>>, "none")
   /\ Len(SelectSeq(src.vars, IsNear)) > 0) =>
    IdsOf(result) = PosIds(SelectSeq(src.vars, IsNear)[1].items)

\* C17: an object without id is left out of its candidate and the other
\* objects of the array are decoded in their order; every item of a
\* candidate and every returned item has an id that is a natural number.
C17_NoIdObjectDropped ==
  op \in DocOps =>
    /\ \A k \in 1..Len(result) : result[k].id >= 0
    /\ \A k \in 1..Len(aux.candidates) :
         \A i \in 1..Len(CandView(op, aux.candidates)[k].ids) :
           CandView(op, aux.candidates)[k].ids[i] >= 0
    /\ (/\ Len(src.blocks) = 1
        /\ src.blocks[1].fail = "none"
        /\ src.blocks[1].data = "inline"
        /\ src.blocks[1].label = Family(op)) =>
         IdsOf(result) = PosIds(src.blocks[1].items)

C17_Witness ==
  /\ op = "parse_item_loot_data"
  /\ src.blocks = <<Block("contains", "inline", <<1, 0, 2>>, "none")>>
  /\ IdsOf(result) = <<1, 2>>
  /\ aux.warnings = 0

\* C18: when no call site of the document yields an item, the entry point
\* returns the empty sequence and prints exactly one warning line.
C18_EmptyWithOneWarning ==
  (op \in DocOps /\ RefCandidates(src, Family(op)) = <<>>) =>
    /\ result = <<>>
    /\ aux.warnings = 1

C18_Witness ==
  /\ op = "parse_item_loot_data"
  /\ src.blocks = <<Block("contains", "inline", <<0>>, "none")>>
  /\ result = <<>>
  /\ aux.warnings = 1

\* C19: a call site that fails (no object literal, '{' or '[' not closed,
\* identifier assigned nowhere) adds no candidate and every other call
\* site adds its own: the candidates collected are those of the remaining
\* call sites, in document order.
C19_FailureSkipsOneSite ==
  op \in DocOps =>
    CandView(op, aux.candidates) = RefCandidates(src, Family(op))

C19_Witness ==
  /\ op = "parse_item_loot_data"
  /\ src.blocks = <<Block("contains", "inline", Ids(1, 2), "none"),
                    Block("contains", "inline", Ids(21, 1), "openarr"),
                    Block("contains", "inline", Ids(41, 1), "none")>>
  /\ CandView(op, aux.candidates) =
       <<[ids |-> <<1, 2>>, preferred |-> TRUE],
         [ids |-> <<41>>, preferred |-> TRUE]>>
  /\ IdsOf(result) = <<1, 2>>


\* ------------------------------------------------------------------------
\* fetcher.py: RetryableHTTPFetcher.fetch_url
\* One call is a behaviour: src holds the fields set by __init__, arg the
\* loop variable attempt, op the position ("request": about to run the body
\* of the for-loop, "done": returned), result the returned value, and aux
\* what happened (the outcome of each requests.get, the back-off waits in
\* seconds, the polite delay before a successful return in tenths of a
\* second).
\* ------------------------------------------------------------------------
MaxRetries == 4

\* the text of a response
ResponseText == "resp.text"

\* what one requests.get can do: return a response with a status code, or
\* raise
StatusCodes == {200, 204, 404, 429, 500}
Responded(code) == [kind |-> "response", code |-> code]
Raised == [kind |-> "exception", code |-> NoInt]

\* Variant: every status of the 2xx class counts as success.
IsSuccessAny2xx(code) == code \in {200, 204}

\* resp.status_code == 200
IsSuccess(code) == code = 200

\* resp.status_code == 429
IsRateLimited(code) == code = 429

\* attempt < self.max_retries - 1
RetriesLeft(attempt, max_retries) == attempt < max_retries - 1

\* Variant: the wait grows by retry_delay per attempt.
WaitTimeLinear(retry_delay, attempt) == retry_delay * (attempt + 1)

\* self.retry_delay * (2 ** attempt)
WaitTime(retry_delay, attempt) == retry_delay * (2 ^ attempt)

FetchInit ==
  /\ src \in [max_retries : 0..MaxRetries, retry_delay : {1, 2}]
  /\ text = <<>>
  /\ op = "request"
  /\ arg = 0
  /\ result = None
  /\ aux = [log |-> <<>>, waits |-> <<>>, polite |-> 0]

\* return value: the call is over
FetchReturn(value, outcome, polite) ==
  /\ op' = "done"
  /\ result' = value
  /\ aux' = [aux EXCEPT !.log = Append(@, outcome), !.polite = polite]
  /\ UNCHANGED <<text, src, arg>>

\* time.sleep(wait_time); continue -- or, on the last attempt, return None
FetchRetryOrGiveUp(outcome) ==
  IF RetriesLeft(arg, src.max_retries)
  THEN /\ arg' = arg + 1
       /\ aux' = [aux EXCEPT !.log = Append(@, outcome),
                             !.waits = Append(@, WaitTime(src.retry_delay, arg))]
       /\ UNCHANGED <<text, src, op, result>>
  ELSE FetchReturn(None, outcome, 0)

\* requests.get returns status 200
FetchOk ==
  /\ op = "request"
  /\ arg < src.max_retries
  /\ \E code \in StatusCodes :
       /\ IsSuccess(code)
       /\ FetchReturn(ResponseText, Responded(code), 2 + arg)

\* requests.get returns status 429
FetchRateLimited ==
  /\ op = "request"
  /\ arg < src.max_retries
  /\ \E code \in StatusCodes :
       /\ ~IsSuccess(code)
       /\ IsRateLimited(code)
       /\ FetchRetryOrGiveUp(Responded(code))

\* requests.get returns any other status
FetchOtherStatus ==
  /\ op = "request"
  /\ arg < src.max_retries
  /\ \E code \in StatusCodes :
       /\ ~IsSuccess(code)
       /\ ~IsRateLimited(code)
       /\ FetchReturn(None, Responded(code), 0)

\* requests.get raises (connection error, timeout, ...)
FetchException ==
  /\ op = "request"
  /\ arg < src.max_retries
  /\ FetchRetryOrGiveUp(Raised)

\* range(self.max_retries) is exhausted: the return None after the loop
FetchExhausted ==
  /\ op = "request"
  /\ ~(arg < src.max_retries)
  /\ op' = "done"
  /\ result' = None
  /\ UNCHANGED <<text, src, arg, aux>>

FetchNext ==
  FetchOk \/ FetchRateLimited \/ FetchOtherStatus \/ FetchException
    \/ FetchExhausted

\* requests.get is given a timeout and every sleep is finite, so a call that
\* has not returned takes its next step.
FetchSpec == FetchInit /\ [][FetchNext]_vars /\ WF_vars(FetchNext)

\* ------------------------------------------------------------------------
\* Properties of fetch_url
\* ------------------------------------------------------------------------
\* the requests made so far
Requests == Len(aux.log)

Got200(k) == aux.log[k] = Responded(200)

\* What every state of a call shows: at most max_retries requests were
\* made; a request that got status 200 is the last one and the call has
\* returned; once returned, the value is the text exactly when a request got
\* status 200, and None otherwise.
FetchBounded ==
  /\ Requests <= src.max_retries
  /\ \A k \in 1..Requests : Got200(k) => (k = Requests /\ op = "done")
  /\ op = "done" =>
       /\ (result = ResponseText) <=> (\E k \in 1..Requests : Got200(k))
       /\ (result = None) <=> ~(\E k \in 1..Requests : Got200(k))

\* C20: fetch_url returns, having made at most max_retries requests; it
\* returns the response text if and only if a request got status 200, the
\* first such request being the last one made, and None in every other
\* case.
C20_FetchTerminates == []FetchBounded /\ <>(op = "done")

C20_Witness ==
  /\ op = "done"
  /\ src.max_retries = 3
  /\ aux.log = <<Responded(429), Raised, Responded(200)>>
  /\ result = ResponseText


\* C21: a request beyond the first follows only a 429 response or a raised
\* exception; the wait before the retry that follows failed attempt k
\* (counted from 0) is retry_delay * 2^k; no wait follows the final attempt;
\* any other status than 200 and 429 ends the call with None at once.
C21_ExponentialBackoff ==
  /\ \A k \in 1..(Requests - 1) :
       aux.log[k] \in {Responded(429), Raised}
  /\ Len(aux.waits) = (IF op = "done" /\ Requests > 0 THEN Requests - 1
                       ELSE Requests)
  /\ \A k \in 1..Len(aux.waits) :
       aux.waits[k] = src.retry_delay * (2 ^ (k - 1))
  /\ Len(aux.waits) < Max({1, src.max_retries})
  /\ \A k \in 1..Requests :
       aux.log[k] \notin {Responded(200), Responded(429), Raised} =>
         (k = Requests /\ op = "done" /\ result = None)

C21_Witness ==
  /\ op = "done"
  /\ src = [max_retries |-> 4, retry_delay |-> 2]
  /\ aux.log = <<Responded(429), Raised, Responded(429), Responded(429)>>
  /\ aux.waits = <<2, 4, 8>>
  /\ result = None


\* ------------------------------------------------------------------------
\* fetcher.py: ItemInfoFetcher.fetch_item_info
\* One call is a behaviour.  src holds the item id, whether cache_dir is
\* set, the content of the item's cache file before the call (None: no
\* file) and which file-system operations raise; op is the position in the
\* function, arg the item id, and aux the locals html and cache_path, the
\* number of calls of fetch_url, and the content of the cache file now.
\* A page is a string; parse_item_page is kept abstract: the returned info
\* records the page it was parsed from.
\* ------------------------------------------------------------------------
MaxItemId == 3

CachedPages == {None, "", "<cached page>"}

\* what fetch_url can return: None, or the text of the response
FetchedPages == {None, "", "<fetched page>"}

\* the default info structure
DefaultInfo(item_id) ==
  [id |-> item_id, name |-> "", quality |-> 0, is_recipe |-> FALSE,
   profession |-> None, is_quest |-> FALSE, is_legendary |-> FALSE,
   min_count |-> NoInt, max_count |-> NoInt, page |-> None]

\* parse_item_page(html, info), abstract
ParsedInfo(html, info) == [info EXCEPT !.page = html]

InfoInit ==
  /\ src \in [item_id : 1..MaxItemId, cache_dir : BOOLEAN,
              cached : CachedPages,
              makedirs_fails : BOOLEAN, read_fails : BOOLEAN,
              write_fails : BOOLEAN]
  /\ text = <<>>
  /\ op = "check cache"
  /\ arg = src.item_id
  /\ result = None
  /\ aux = [html |-> None, cache_path |-> FALSE, requests |-> 0,
            file |-> src.cached]

\* Variant: the page is fetched whatever the cache held.
FetchNeededAlways(html) == TRUE

\* if html is None: the page was not read from the cache
FetchNeeded(html) == html = None

\* if html and cache_path: a non-empty response and a cache path
StoreNeeded(html, cache_path) == html # None /\ html # "" /\ cache_path

\* The block under "if self.cache_dir:".  An exception of makedirs leaves
\* cache_path unset; one of the read leaves html None.
InfoCheckCache ==
  /\ op = "check cache"
  /\ op' = "fetch"
  /\ aux' = IF ~src.cache_dir \/ src.makedirs_fails THEN aux
            ELSE [aux EXCEPT !.cache_path = TRUE,
                             !.html = IF aux.file # None /\ ~src.read_fails
                                      THEN aux.file ELSE None]
  /\ UNCHANGED <<text, src, arg, result>>

\* html = self.http_fetcher.fetch_url(...), only when html is None
InfoFetch ==
  /\ op = "fetch"
  /\ IF FetchNeeded(aux.html)
     THEN \E page \in FetchedPages :
            /\ aux' = [aux EXCEPT !.html = page, !.requests = @ + 1]
            /\ op' = IF StoreNeeded(page, aux.cache_path) THEN "store"
                     ELSE "return"
     ELSE /\ op' = "return"
          /\ aux' = aux
  /\ UNCHANGED <<text, src, arg, result>>

\* The write of the response to the cache file.  open(..., 'w') or the
\* write may raise: the file is then as before, or left empty by the open.
InfoStore ==
  /\ op = "store"
  /\ op' = "return"
  /\ IF src.write_fails
     THEN \E left \in {aux.file, ""} : aux' = [aux EXCEPT !.file = left]
     ELSE aux' = [aux EXCEPT !.file = aux.html]
  /\ UNCHANGED <<text, src, arg, result>>

\* return info, or return parse_item_page(html, info)
InfoReturn ==
  /\ op = "return"
  /\ op' = "done"
  /\ result' = IF aux.html = None THEN DefaultInfo(arg)
               ELSE ParsedInfo(aux.html, DefaultInfo(arg))
  /\ UNCHANGED <<text, src, arg, aux>>

InfoNext == InfoCheckCache \/ InfoFetch \/ InfoStore \/ InfoReturn

InfoSpec == InfoInit /\ [][InfoNext]_vars

\* the cache holds the item's page and gives it: cache_dir is set, the
\* file exists, and neither makedirs nor the read raises
CacheHit ==
  /\ src.cache_dir
  /\ src.cached # None
  /\ ~src.makedirs_fails
  /\ ~src.read_fails

BadPct == <<0>>

Abs(n) == IF n < 0 THEN 0 - n ELSE n

\* Variant: the sign of the rounded value is kept for every item.
QuestSignKept(f, is_quest) == f

\* if item.get('is_quest'): f = -abs(f)
QuestSign(f, is_quest) == IF is_quest THEN 0 - Abs(f) ELSE f

\* round(float(dc), 2), 0.0 replaced by 0.1, then the sign of quest items
DecidedFrom(f, is_quest) ==
  <<QuestSign(IF f[1] = 0 THEN 10 ELSE f[1], is_quest), 100>>

decide_drop_chance(item) ==
  IF item.drop_chance = NoPct \/ item.drop_chance = BadPct THEN NoPct
  ELSE DecidedFrom(RoundHundredths(100 * item.drop_chance[1],
                                   item.drop_chance[2]),
                   item.is_quest)

\* ------------------------------------------------------------------------
\* sql_generator.py: SQLGenerator
\* ------------------------------------------------------------------------
\* The text of a float that is a whole number of hundredths h / 100 and not
\* a whole number: '{:.2f}' without trailing zeros, which is also str() of
\* the float.
DecimalText(h) ==
  (IF h < 0 THEN <<"-">> ELSE <<>>)
    \o NatDigits(Abs(h) \div 100) \o <<".">>
    \o (IF Abs(h) % 10 = 0 THEN <<DigitChars[((Abs(h) % 100) \div 10) + 1]>>
        ELSE <<DigitChars[((Abs(h) % 100) \div 10) + 1],
               DigitChars[(Abs(h) % 10) + 1]>>)

\* _format_chance_for_sql(chance)
FormatChanceForSql(chance) ==
  IF chance[1] % 100 = 0 THEN IntDigits(chance[1] \div 100)
  ELSE DecimalText(chance[1])

QUALITY_LABELS ==
  <<<<"p", "o", "o", "r">>, <<"c", "o", "m", "m", "o", "n">>,
    <<"g", "r", "e", "e", "n">>, <<"r", "a", "r", "e">>,
    <<"e", "p", "i", "c">>,
    <<"l", "e", "g", "e", "n", "d", "a", "r", "y">>,
    <<"a", "r", "t", "i", "f", "a", "c", "t">>>>

\* QUALITY_LABELS.get(q, f'q{q}')
QualityLabel(q) ==
  IF q \in 0..6 THEN QUALITY_LABELS[q + 1] ELSE <<"q">> \o IntDigits(q)

NoProfession == <<>>

\* _build_item_comment_parts(item, chance)
BuildItemCommentParts(item, chance) ==
  <<<<"c", "h", "a", "n", "c", "e", ":">> \o FormatChanceForSql(chance)
      \o <<"%">>>>
  \o (IF item.is_quest THEN <<<<"q", "u", "e", "s", "t">>>> ELSE <<>>)
  \o <<<<"q", "u", "a", "l", "i", "t", "y", ":">>
         \o QualityLabel(item.quality)>>
  \o (IF item.min_count # NoInt /\ item.max_count # NoInt
      THEN <<<<"c", "o", "u", "n", "t", ":">> \o IntDigits(item.min_count)
               \o <<"-">> \o IntDigits(item.max_count)>>
      ELSE <<>>)
  \o (IF item.is_recipe
      THEN <<(IF item.profession # NoProfession THEN item.profession
              ELSE <<"u", "n", "k", "n", "o", "w", "n">>)
               \o <<" ", "(", "r", "e", "c", "i", "p", "e", ")">>>>
      ELSE <<>>)
  \o <<<<"n", "a", "m", "e", ":">> \o item.name>>

\* sep.join(parts)
RECURSIVE Join(_, _)
Join(sep, parts) ==
  IF Len(parts) = 0 THEN <<>>
  ELSE IF Len(parts) = 1 THEN parts[1]
  ELSE parts[1] \o sep \o Join(sep, Tail(parts))

\* s.split(ch)
RECURSIVE Split(_, _)
Split(s, ch) ==
  IF \A k \in 1..Len(s) : s[k] # ch THEN <<s>>
  ELSE <<SubSeq(s, 1, Min({k \in 1..Len(s) : s[k] = ch}) - 1)>>
         \o Split(SubSeq(s, Min({k \in 1..Len(s) : s[k] = ch}) + 1, Len(s)),
                  ch)

\* " ".join(comment_parts).split(":")
CommentPieces(comment_parts) == Split(Join(<<" ">>, comment_parts), ":")

\* _get_item_counts(item, default_min, default_max)
GetItemCounts(item, default_min, default_max) ==
  <<IF item.min_count # NoInt THEN item.min_count ELSE default_min,
    IF item.max_count # NoInt THEN item.max_count ELSE default_max>>

\* The state of the loop of a generator: the needsquest variable, the rows
\* of vals, the per-item comment lines, the skipped ids, and the exception
\* that ended the call.
LoopStart(needsquest) ==
  [needsquest |-> needsquest, vals |-> <<>>, comment_lines |-> <<>>,
   skipped |-> <<>>, raised |-> None]

\* One row of vals, from the values the f-string is given.
ValuesRow(entry, it, chance, needsquest, counts, thisComment) ==
  [entry |-> entry, item |-> it.id,
   chance |-> FormatChanceForSql(chance),
   needsquest |-> needsquest,
   mincount |-> counts[1], maxcount |-> counts[2],
   comment |-> thisComment]

\* The body of "for it in items" once the chance is not None.  The index 4
\* of the pieces raises IndexError when there are fewer than five.  The
\* chance of the row is formatted before the quest re-format negates it.
EmitRow(entry, st, it, chance, pieces, mincount, maxcount) ==
  IF Len(pieces) < 5 THEN [st EXCEPT !.raised = "IndexError"]
  ELSE [st EXCEPT
          !.needsquest = IF chance[1] < 0 THEN 1 ELSE @,
          !.comment_lines =
             Append(@, Join(<<" ", "-", "-", " ">>,
                            <<IntDigits(it.id)>>
                              \o BuildItemCommentParts(it, chance))),
          !.vals = Append(@, ValuesRow(entry, it, chance,
                                       IF chance[1] < 0 THEN 1
                                       ELSE st.needsquest,
                                       GetItemCounts(it, mincount, maxcount),
                                       pieces[5]))]

\* The body of "for it in items"
LoopBody(entry, st, it, chance, mincount, maxcount) ==
  IF chance = NoPct THEN [st EXCEPT !.skipped = Append(@, it.id)]
  ELSE EmitRow(entry, st, it, chance,
               CommentPieces(BuildItemCommentParts(it, chance)),
               mincount, maxcount)

RECURSIVE Loop(_, _, _, _, _)
Loop(entry, st, items, mincount, maxcount) ==
  IF Len(items) = 0 \/ st.raised # None THEN st
  ELSE Loop(entry,
            LoopBody(entry, st, Head(items), decide_drop_chance(Head(items)),
                     mincount, maxcount),
            Tail(items), mincount, maxcount)

\* generate_loot_sql and its gameobject, item and zone variants: the rows
\* and the per-item comment lines of the returned text, or the exception.
GenerateSql(entry, items, needsquest, mincount, maxcount) ==
  Loop(entry, LoopStart(needsquest), items, mincount, maxcount)

\* ------------------------------------------------------------------------
\* Inputs of the generators: lists of enriched items.
\* ------------------------------------------------------------------------
MaxSqlItems == 2

Foo == <<"F", "o", "o">>

Item(id, name, quest, dc, cnt, recipe) ==
  [id |-> id, name |-> name, quality |-> 1, is_recipe |-> recipe,
   profession |-> NoProfession, is_quest |-> quest, is_legendary |-> FALSE,
   drop_chance |-> dc, min_count |-> cnt[1], max_count |-> cnt[2]]

SqlItems ==
  {Item(5, Foo, quest, dc, cnt, FALSE) :
     quest \in BOOLEAN, dc \in {NoPct, <<0, 1>>, <<25, 2>>, <<1, 300>>},
     cnt \in {<<NoInt, NoInt>>, <<2, 3>>}}
  \cup {Item(6, <<"a", ":", "b">>, quest, <<25, 2>>, <<NoInt, NoInt>>, FALSE) :
          quest \in BOOLEAN}
  \cup {Item(7, Foo \o <<":", " ", "x">>, FALSE, <<12346, 1000>>, <<1, 1>>,
             TRUE),
        Item(8, Foo, FALSE, BadPct, <<2, 3>>, FALSE)}

SqlLists == UNION {[1..n -> SqlItems] : n \in 0..MaxSqlItems}

SqlInit ==
  /\ src \in [items : SqlLists, needsquest : {0, 1}]
  /\ text = <<>>
  /\ op = "init"
  /\ arg = 0
  /\ result = LoopStart(0)
  /\ aux = NoPct

Generated(name, entry) ==
  /\ op = "init"
  /\ op' = name
  /\ result' = GenerateSql(entry, src.items, src.needsquest, 1, 1)
  /\ UNCHANGED <<text, src, arg, aux>>

GenerateLootSql == Generated("generate_loot_sql", "@NPC")
GenerateGameobjectLootSql == Generated("generate_gameobject_loot_sql", "@GOB")
GenerateItemLootSql == Generated("generate_item_loot_sql", "@ITEM")
GenerateZoneLootSql == Generated("generate_zone_loot_sql", "@ZONE")

DecideDropChance ==
  /\ op = "init"
  /\ \E k \in 1..Len(src.items) :
       /\ arg' = k
       /\ aux' = decide_drop_chance(src.items[k])
  /\ op' = "decide_drop_chance"
  /\ UNCHANGED <<text, src, result>>

SqlNext ==
  \/ GenerateLootSql
  \/ GenerateGameobjectLootSql
  \/ GenerateItemLootSql
  \/ GenerateZoneLootSql
  \/ DecideDropChance

SqlSpec == SqlInit /\ [][SqlNext]_vars

\* C23: decide_drop_chance returns None exactly for an item without a
\* drop_chance or with an unparsable one; for a non-negative drop_chance the
\* result is the value rounded to hundredths, 0.1 in place of 0.0, negated
\* for a quest item: never 0, and negative exactly for quest items.
C23_DecidedChance ==
  op = "decide_drop_chance" =>
    LET it == src.items[arg]
        dc == it.drop_chance
    IN /\ aux = NoPct <=> dc \in {NoPct, BadPct}
       /\ (dc \notin {NoPct, BadPct} /\ dc[1] >= 0) =>
            /\ aux[2] = 100
            /\ aux[1] # 0
            /\ aux[1] < 0 <=> it.is_quest
            /\ LET r == Abs(aux[1])
               IN \/ /\ r = 10
                     /\ 200 * dc[1] < dc[2]
                  \/ /\ 2 * Abs(100 * dc[1] - r * dc[2]) <= dc[2]
                     /\ 200 * dc[1] >= dc[2]

C23_Witness ==
  /\ op = "decide_drop_chance"
  /\ src.items[arg].is_quest
  /\ src.items[arg].drop_chance = <<1, 300>>
  /\ aux = <<-10, 100>>


GenOps ==
  {"generate_loot_sql", "generate_gameobject_loot_sql",
   "generate_item_loot_sql", "generate_zone_loot_sql"}

\* the items of a list whose decided chance is not None, in list order
HasChance(it) == decide_drop_chance(it) # NoPct
WithChance(items) == SelectSeq(items, HasChance)

\* C25: a generator emits one VALUES row and one comment line per input
\* item whose decided chance is not None, in input order, and nothing for
\* the other items.
C25_RowPerDecidedItem ==
  op \in GenOps =>
    /\ Len(result.vals) = Len(WithChance(src.items))
    /\ Len(result.comment_lines) = Len(WithChance(src.items))
    /\ \A k \in 1..Len(result.vals) :
         result.vals[k].item = WithChance(src.items)[k].id

\* C26: the needsquest of every emitted row is 1 for an item whose decided
\* chance is negative and the caller's needsquest argument for any other
\* item, wherever the row stands in the list.
C26_NeedsquestPerRow ==
  (op \in GenOps /\ result.raised = None) =>
    \A k \in 1..Len(result.vals) :
      result.vals[k].needsquest =
        (IF decide_drop_chance(WithChance(src.items)[k])[1] < 0 THEN 1
         ELSE src.needsquest)

\* C27: the row of a quest item carries needsquest 1 and the magnitude of
\* its chance: no emitted chance is negative.
C27_ChanceNeverNegative ==
  (op \in GenOps /\ result.raised = None) =>
    \A k \in 1..Len(result.vals) :
      /\ Head(result.vals[k].chance) # "-"
      /\ WithChance(src.items)[k].is_quest => result.vals[k].needsquest = 1

\* C28: a generator completes for every list of enriched items, and the
\* comment of each emitted row is the name of its item.
C28_CommentIsName ==
  op \in GenOps =>
    /\ result.raised = None
    /\ \A k \in 1..Len(result.vals) :
         result.vals[k].comment = WithChance(src.items)[k].name


\* ------------------------------------------------------------------------
\* enricher.py: ItemEnricher
\* ------------------------------------------------------------------------
RECIPE_KEYWORDS ==
  <<<<"r", "e", "c", "i", "p", "e">>, <<"p", "a", "t", "t", "e", "r", "n">>,
    <<"p", "l", "a", "n", "s">>,
    <<"t", "e", "c", "h", "n", "i", "q", "u", "e">>,
    <<"d", "e", "s", "i", "g", "n">>, <<"f", "o", "r", "m", "u", "l", "a">>,
    <<"s", "c", "h", "e", "m", "a", "t", "i", "c">>>>

\* the keys of PROFESSIONS, in order; each maps to itself
PROFESSIONS ==
  <<<<"a", "l", "c", "h", "e", "m", "y">>,
    <<"e", "n", "c", "h", "a", "n", "t", "i", "n", "g">>,
    <<"j", "e", "w", "e", "l", "c", "r", "a", "f", "t", "i", "n", "g">>,
    <<"i", "n", "s", "c", "r", "i", "p", "t", "i", "o", "n">>,
    <<"l", "e", "a", "t", "h", "e", "r", "w", "o", "r", "k", "i", "n", "g">>,
    <<"b", "l", "a", "c", "k", "s", "m", "i", "t", "h", "i", "n", "g">>,
    <<"e", "n", "g", "i", "n", "e", "e", "r", "i", "n", "g">>,
    <<"t", "a", "i", "l", "o", "r", "i", "n", "g">>,
    <<"h", "e", "r", "b", "a", "l", "i", "s", "m">>,
    <<"c", "o", "o", "k", "i", "n", "g">>>>

\* s.lower()
LowerText(s) == [k \in 1..Len(s) |-> Lower(s[k])]

\* sub in s
Contains(s, sub) ==
  \E k \in 0..(Len(s) - Len(sub)) : SubSeq(s, k + 1, k + Len(sub)) = sub

\* any(kw in lname for kw in RECIPE_KEYWORDS)
IsRecipeName(lname) ==
  \E k \in 1..Len(RECIPE_KEYWORDS) : Contains(lname, RECIPE_KEYWORDS[k])

\* the first profession whose key is in lname, for a recipe
ProfessionOf(lname) ==
  IF IsRecipeName(lname)
       /\ \E k \in 1..Len(PROFESSIONS) : Contains(lname, PROFESSIONS[k])
  THEN PROFESSIONS[Min({k \in 1..Len(PROFESSIONS) :
                          Contains(lname, PROFESSIONS[k])})]
  ELSE NoProfession

\* the quest detection of an item
IsQuestItem(it, lname) ==
  \/ it.classs = QUEST_ITEM_CLASS
  \/ Contains(lname, <<"q", "u", "e", "s", "t">>)
  \/ Contains(LowerText(it.flags),
              <<"q", "u", "e", "s", "t", " ", "i", "t", "e", "m">>)

\* The dict appended for one item.  It has no min_count and max_count key:
\* get() of them gives None, the NoInt of the two fields here.
Enriched(it, lname) ==
  [id |-> it.id, name |-> it.name, quality |-> it.quality,
   is_recipe |-> IsRecipeName(lname), profession |-> ProfessionOf(lname),
   is_quest |-> IsQuestItem(it, lname), is_legendary |-> it.quality >= 5,
   drop_chance |-> it.drop_chance, classs |-> it.classs,
   subclass |-> it.subclass, min_count |-> NoInt, max_count |-> NoInt]

HasId(it) == it.id # NoInt

RECURSIVE enrich_from_npc_data(_)
enrich_from_npc_data(items) ==
  IF Len(items) = 0 THEN <<>>
  ELSE (IF HasId(Head(items))
        THEN <<Enriched(Head(items), LowerText(Head(items).name))>>
        ELSE <<>>)
       \o enrich_from_npc_data(Tail(items))

\* Variant: every recipe is fetched.
NeedsFetchAnyRecipe(it) == it.is_recipe

\* it.get('is_recipe') and not it.get('profession')
NeedsFetch(it) == it.is_recipe /\ it.profession = NoProfession

\* to_fetch, as the positions in items of the dicts it holds
ToFetch(items) == SelectSeq([k \in 1..Len(items) |-> k],
                            LAMBDA k : NeedsFetch(items[k]))

\* the conservative update of one item from the fetched details
Updated(it, details) ==
  [it EXCEPT
     !.profession = IF details.profession # NoProfession
                    THEN details.profession ELSE @,
     !.name = IF details.name # <<>> /\ @ = <<>> THEN details.name ELSE @,
     !.quality = IF details.quality # 0 /\ @ = 0 THEN details.quality ELSE @,
     !.is_quest = IF details.is_quest THEN TRUE ELSE @,
     !.is_legendary = IF details.is_legendary THEN TRUE ELSE @]

\* ------------------------------------------------------------------------
\* The enrichment of a decoded item list, the update from the item pages,
\* and the SQL of the result.  src is the decoded list, result the list of
\* enriched items, aux the position in to_fetch, the calls of the item
\* fetcher with what each returned, and the generated SQL.
\* ------------------------------------------------------------------------
MaxRawItems == 2

Raw(id, name, quality, flags, classs, dc, cnt) ==
  [id |-> id, name |-> name, quality |-> quality, flags |-> flags,
   classs |-> classs, subclass |-> NoInt, drop_chance |-> dc,
   min_count |-> cnt[1], max_count |-> cnt[2]]

RawItems ==
  {Raw(5, <<"O", "r", "e">>, 1, <<>>, 7, <<25, 2>>, <<2, 3>>),
   Raw(NoInt, <<"P", "l", "a", "n", "s">>, 1, <<>>, 9, <<25, 2>>, <<1, 1>>),
   Raw(6, <<"P", "l", "a", "n", "s", ":", " ", "A", "x", "e">>, 0, <<>>, 9,
       <<25, 2>>, <<NoInt, NoInt>>),
   Raw(7, <<"T", "a", "i", "l", "o", "r", "i", "n", "g", " ", "P", "a", "t",
            "t", "e", "r", "n">>, 2, <<>>, 9, <<0, 1>>, <<1, 1>>),
   Raw(8, <<>>, 5, <<>>, QUEST_ITEM_CLASS, <<1, 4>>, <<1, 5>>),
   Raw(9, <<"D", "e", "s", "i", "g", "n">>, 2,
       <<"Q", "u", "e", "s", "t", " ", "I", "t", "e", "m">>, NoInt, NoPct,
       <<NoInt, NoInt>>)}

RawLists == UNION {[1..n -> RawItems] : n \in 0..MaxRawItems}

\* what fetch_item_info can return of the fields the update reads
Details(profession, name, quality, flag) ==
  [profession |-> profession, name |-> name, quality |-> quality,
   is_quest |-> flag, is_legendary |-> flag]

FetchedDetails ==
  {Details(NoProfession, <<>>, 0, FALSE),
   Details(<<"t", "a", "i", "l", "o", "r", "i", "n", "g">>,
           <<"F", "e", "t", "c", "h", "e", "d">>, 3, TRUE),
   Details(NoProfession, <<"F", "e", "t", "c", "h", "e", "d">>, 4, FALSE)}

EnrichInit ==
  /\ src \in RawLists
  /\ text = <<>>
  /\ op = "init"
  /\ arg = 0
  /\ result = <<>>
  /\ aux = [to_fetch |-> <<>>, calls |-> <<>>, sql |-> LoopStart(0)]

EnrichFromNpcData ==
  /\ op = "init"
  /\ op' = "enriched"
  /\ result' = enrich_from_npc_data(src)
  /\ UNCHANGED <<text, src, arg, aux>>

\* to_fetch is built; "if not to_fetch: return items"
UpdateBegin ==
  /\ op = "enriched"
  /\ aux' = [aux EXCEPT !.to_fetch = ToFetch(result)]
  /\ op' = IF Len(ToFetch(result)) = 0 THEN "updated" ELSE "fetching"
  /\ arg' = 1
  /\ UNCHANGED <<text, src, result>>

\* one turn of "for idx, it in enumerate(to_fetch, 1)"
UpdateFetch ==
  /\ op = "fetching"
  /\ IF result[aux.to_fetch[arg]].id = NoInt
     THEN UNCHANGED <<result, aux>>
     ELSE \E details \in FetchedDetails :
            /\ aux' = [aux EXCEPT !.calls =
                         Append(@, [id |-> result[aux.to_fetch[arg]].id,
                                    details |-> details])]
            /\ result' = [result EXCEPT ![aux.to_fetch[arg]] =
                            Updated(@, details)]
  /\ arg' = arg + 1
  /\ op' = IF arg = Len(aux.to_fetch) THEN "updated" ELSE "fetching"
  /\ UNCHANGED <<text, src>>

\* the SQL generated from the enriched and updated items
EnrichedToSql ==
  /\ op = "updated"
  /\ op' = "generate_loot_sql"
  /\ aux' = [aux EXCEPT !.sql = GenerateSql("@NPC", result, 0, 1, 1)]
  /\ UNCHANGED <<text, src, arg, result>>

EnrichNext ==
  \/ EnrichFromNpcData
  \/ UpdateBegin
  \/ UpdateFetch
  \/ EnrichedToSql

EnrichSpec == EnrichInit /\ [][EnrichNext]_vars

\* the decoded items that have an id, in list order
WithId(items) == SelectSeq(items, HasId)

\* the positions, in the enriched list, of the recipes without a profession
RecipesWithoutProfession(items) ==
  SelectSeq([k \in 1..Len(items) |-> k],
            LAMBDA k : items[k].is_recipe /\ items[k].profession = <<>>)

\* C24: update_from_item_page calls the fetcher once for each recipe
\* without a profession, in list order, and for no other item; an item that
\* was not fetched is unchanged; a fetched item takes the fetched profession
\* when that is not empty, and the fetched name and quality only in place
\* of an empty name and a zero quality.
C24_FetchOnlyUnknownRecipes ==
  op \in {"fetching", "updated"} =>
    LET before == enrich_from_npc_data(src)
        want == RecipesWithoutProfession(before)
        done == Len(aux.calls)
    IN /\ done = (IF op = "updated" THEN Len(want) ELSE arg - 1)
       /\ \A k \in 1..done : aux.calls[k].id = before[want[k]].id
       /\ Len(result) = Len(before)
       /\ \A i \in 1..Len(before) :
            (\A k \in 1..done : want[k] # i) => result[i] = before[i]
       /\ \A k \in 1..done :
            LET old == before[want[k]]
                new == result[want[k]]
                got == aux.calls[k].details
            IN /\ new.profession = (IF got.profession # <<>>
                                    THEN got.profession ELSE old.profession)
               /\ new.name # old.name => (old.name = <<>> /\ new.name = got.name)
               /\ new.quality # old.quality =>
                    (old.quality = 0 /\ new.quality = got.quality)
               /\ new.id = old.id

C24_Witness ==
  /\ op = "updated"
  /\ Len(result) = 2
  /\ Len(aux.calls) = 1
  /\ aux.calls[1].id = 6
  /\ result[1].id = 7
  /\ result[2].profession = <<"t", "a", "i", "l", "o", "r", "i", "n", "g">>
  /\ result[2].quality = 3

\* C29: enrich_from_npc_data keeps id, name, drop_chance, classs, subclass,
\* min_count and max_count of every item with an id, in order, so that the
\* mincount and maxcount of a generated row are the parsed counts of its
\* item.
C29_CountsKept ==
  /\ op = "enriched" =>
       /\ Len(result) = Len(WithId(src))
       /\ \A k \in 1..Len(result) :
            /\ result[k].id = WithId(src)[k].id
            /\ result[k].name = WithId(src)[k].name
            /\ result[k].drop_chance = WithId(src)[k].drop_chance
            /\ result[k].classs = WithId(src)[k].classs
            /\ result[k].subclass = WithId(src)[k].subclass
            /\ result[k].min_count = WithId(src)[k].min_count
            /\ result[k].max_count = WithId(src)[k].max_count
  /\ (op = "generate_loot_sql" /\ aux.sql.raised = None) =>
       \A k \in 1..Len(aux.sql.vals) :
         \A i \in 1..Len(src) :
           (src[i].id = aux.sql.vals[k].item /\ src[i].min_count # NoInt) =>
             /\ aux.sql.vals[k].mincount = src[i].min_count
             /\ aux.sql.vals[k].maxcount = src[i].max_count


\* ------------------------------------------------------------------------
\* Documents whose items meet the final filter: ids at and above the
\* ceiling, excluded ids, a repeated id, beside a second block that is not
\* selected or that is selected in place of the first.
\* ------------------------------------------------------------------------
FilterDocs ==
  {[vars |-> <<>>,
    blocks |-> <<Block(l, "inline", items, "none"), second>>] :
     l \in {"drops", "contains"},
     items \in {<<1, 138019, MAX_ITEM_ID, MAX_ITEM_ID + 1, 2>>,
                <<MAX_ITEM_ID + 1, 138019>>,
                <<3, 3, 147869>>,
                <<MAX_ITEM_ID>>,
                <<0, MAX_ITEM_ID + 69, 4>>},
     second \in {Block("none", "inline", <<21, 22, 124124, 23, 24, 25>>,
                       "none"),
                 Block("drops", "inline", <<138482, 31, 32, 141689>>, "none"),
                 Block("other", "inline", <<41>>, "none")}}

FilterInit ==
  /\ src \in FilterDocs
  /\ text = RenderDoc(src)
  /\ op = "init"
  /\ arg = <<>>
  /\ result = None
  /\ aux = None

FilterSpec == FilterInit /\ [][DocNext]_vars

\* an id the final filter lets through
Allowed(id) == id <= MAX_ITEM_ID /\ id \notin EXCLUDED_ITEM_IDS

\* the candidates among which the call selects the longest
SelectionPool(cs) ==
  IF Len(SelectSeq(cs, IsPreferred)) > 0 THEN SelectSeq(cs, IsPreferred)
  ELSE cs

\* C30: the returned items are those of the selected candidate whose id is
\* at most MAX_ITEM_ID and not excluded, each once and in the order of the
\* candidate; no item of another candidate is among them.
C30_FilteredSubsequence ==
  op \in DocOps =>
    IF RefCandidates(src, Family(op)) = <<>> THEN result = <<>>
    ELSE IdsOf(result) \in
           {SelectSeq(ids, Allowed) :
              ids \in Longest(SelectionPool(RefCandidates(src, Family(op))))}

C30_Witness ==
  /\ op = "parse_npc_loot_data"
  /\ src.blocks[1].items = <<1, 138019, MAX_ITEM_ID, MAX_ITEM_ID + 1, 2>>
  /\ src.blocks[2].label = "none"
  /\ Len(src.blocks[2].items) = 6
  /\ IdsOf(result) = <<1, MAX_ITEM_ID, 2>>

====
